---- MODULE Spec2Model ----
(***************************************************************************)
(* app-version-checker: the VersionChecker decision engine, its two        *)
(* provider contracts (Data Source, Preference Store) and the pure version *)
(* comparison / store URL helpers.                                         *)
(*                                                                         *)
(* Every async method of VersionChecker is a little process: it runs from  *)
(* one await to the next in one atomic step.  The three awaits inside      *)
(* getVersionInfo() only read the Data Source and are taken in one step.   *)
(* Every provider call may throw (a nondeterministic choice at the call).  *)
(* Date.now() is the variable clock, which may advance between any two     *)
(* steps.                                                                  *)
(***************************************************************************)
EXTENDS Integers, Sequences, FiniteSets, TLC

(***************************************************************************)
(* Bounds of the model.  Time is counted in abstract clock units.          *)
(***************************************************************************)
MaxTime == 5
MaxDismiss == 2
MaxInits == 2
MaxRenders == 4
MaxSegments == 3
MaxList == 3

\* options.minCheckInterval / options.remindLaterDuration as passed to the
\* constructor (in clock units)
MinCheckInterval == 2
RemindLaterDuration == 2

\* JavaScript null / undefined for numbers, and NaN for parseInt results
Null == 0 - 1
NaN == 0 - 2

\* Date.now() is epoch milliseconds: far beyond any check interval
StartTime == MinCheckInterval + 1

Procs == {"p1", "p2"}
\* calls made one after another all run in the first frame
Caller == "p1"
Platforms == {"ios", "android", "web"}
\* The answers of the options.getPlatform detector in the engine's runs (the
\* engine treats "android" exactly as "ios")
DetectorAnswers == {"ios", "web"}

(***************************************************************************)
(* Version Comparator.  A version string is the sequence of its dotted     *)
(* segments (split('.')), a segment the sequence of its characters: the    *)
(* digits are 0..9, any other value stands for a non-digit character.      *)
(* The null version is the empty sequence; the empty string has one empty  *)
(* segment.                                                                *)
(***************************************************************************)
NoVersion == << >>

\* JavaScript a < b on numbers: false whenever an operand is NaN
JsLess(a, b) == a # NaN /\ b # NaN /\ a < b

Max(a, b) == IF a >= b THEN a ELSE b

Digit == 0..9
\* A character that is no digit
Letter == 0 - 3

\* The value of the digits of num from position i on, up to the first non-digit
RECURSIVE DigitsValue(_, _, _)
DigitsValue(num, i, acc) ==
    IF i > Len(num) \/ num[i] \notin Digit THEN acc
    ELSE DigitsValue(num, i + 1, acc * 10 + num[i])

\* Faulty variant: only the first digit is read
parseInt_FirstDigit(num) ==
    IF num = << >> \/ num[1] \notin Digit THEN NaN ELSE num[1]

\* parseInt(num, 10): the leading digits' value, NaN when there is none
parseInt(num) ==
    IF num = << >> \/ num[1] \notin Digit THEN NaN ELSE DigitsValue(num, 1, 0)

\* v.split('.').map(num => parseInt(num, 10))
ParsedParts(v) == [i \in 1..Len(v) |-> parseInt(v[i])]

\* Faulty variant: the shorter version is not padded to the longer one's
\* length but compared with a last segment of 1
PadTo_One(parts, n) == [i \in 1..n |-> IF i <= Len(parts) THEN parts[i] ELSE 1]

\* while (parts.length < maxLength) parts.push(0)
PadTo(parts, n) == [i \in 1..n |-> IF i <= Len(parts) THEN parts[i] ELSE 0]

\* Faulty variant: the loop's fall-through returns 1
RECURSIVE CompareFrom_NeverEqual(_, _, _, _)
CompareFrom_NeverEqual(parts1, parts2, i, maxLength) ==
    IF i > maxLength THEN 1
    ELSE IF JsLess(parts1[i], parts2[i]) THEN 0 - 1
    ELSE IF JsLess(parts2[i], parts1[i]) THEN 1
    ELSE CompareFrom_NeverEqual(parts1, parts2, i + 1, maxLength)

\* for (let i = 0; i < maxLength; i++) { if (parts1[i] < parts2[i]) return -1;
\* if (parts1[i] > parts2[i]) return 1; } return 0;
RECURSIVE CompareFrom(_, _, _, _)
CompareFrom(parts1, parts2, i, maxLength) ==
    IF i > maxLength THEN 0
    ELSE IF JsLess(parts1[i], parts2[i]) THEN 0 - 1
    ELSE IF JsLess(parts2[i], parts1[i]) THEN 1
    ELSE CompareFrom(parts1, parts2, i + 1, maxLength)

\* Faulty variant: only the first three segments are compared
compareVersions_FirstThree(v1, v2) ==
    LET maxLength == Max(Len(v1), Len(v2))
    IN  CompareFrom(PadTo(ParsedParts(v1), maxLength),
                    PadTo(ParsedParts(v2), maxLength), 1,
                    IF maxLength > 3 THEN 3 ELSE maxLength)

compareVersions(v1, v2) ==
    LET maxLength == Max(Len(v1), Len(v2))
    IN  CompareFrom(PadTo(ParsedParts(v1), maxLength),
                    PadTo(ParsedParts(v2), maxLength), 1, maxLength)

\* Faulty variant: an equal version counts as an update
isUpdateAvailable_OrEqual(currentVersion, latestVersion) ==
    compareVersions(currentVersion, latestVersion) <= 0

isUpdateAvailable(currentVersion, latestVersion) ==
    compareVersions(currentVersion, latestVersion) < 0

(***************************************************************************)
(* Store-URL Resolver.  A URL is the pair <<prefix, identifier>>; an       *)
(* absent config field is "" and the null URL is the empty sequence.       *)
(***************************************************************************)
NoUrl == << >>

\* Faulty variant: the App Store ID wins over the custom URL
getIosStoreUrl_IdFirst(appStoreId, customUrl) ==
    IF appStoreId # "" THEN <<"https://apps.apple.com/app/id", appStoreId>>
    ELSE IF customUrl # "" THEN <<customUrl>>
    ELSE NoUrl

getIosStoreUrl(appStoreId, customUrl) ==
    IF customUrl # "" THEN <<customUrl>>
    ELSE IF appStoreId = "" THEN NoUrl
    ELSE <<"https://apps.apple.com/app/id", appStoreId>>

getAndroidStoreUrl(packageName, customUrl) ==
    IF customUrl # "" THEN <<customUrl>>
    ELSE IF packageName = "" THEN NoUrl
    ELSE <<"https://play.google.com/store/apps/details?id=", packageName>>

getStoreUrl(pf, config) ==
    CASE pf = "ios" -> getIosStoreUrl(config.iosAppStoreId, config.iosStoreUrl)
      [] pf = "android" ->
            getAndroidStoreUrl(config.androidPackageName, config.androidStoreUrl)
      [] OTHER -> NoUrl

(***************************************************************************)
(* The Data Source's answers used by the model.                            *)
(***************************************************************************)
\* getCurrentVersion() answers "1.0.439"; getLatestVersion() answers null,
\* "1.0.49", "1.0.439", "1.0.440" or "1.1"
CurrentVersion == << <<1>>, <<0>>, <<4, 3, 9>> >>
LatestVersions ==
    {NoVersion,
     << <<1>>, <<0>>, <<4, 9>> >>,
     << <<1>>, <<0>>, <<4, 3, 9>> >>,
     << <<1>>, <<0>>, <<4, 4, 0>> >>,
     << <<1>>, <<1>> >>}
AppStoreConfig ==
    [iosAppStoreId |-> "123456789", androidPackageName |-> "com.example.app",
     iosStoreUrl |-> "", androidStoreUrl |-> ""]

(***************************************************************************)
(* State.                                                                  *)
(***************************************************************************)
VARIABLES
    clock,          \* Date.now()
    platform,       \* what the options.getPlatform detector answers now
    latestVersion,  \* what the Data Source's getLatestVersion answers now
    mandatory,      \* what the Data Source's isUpdateMandatory hook answers now
    cfg,            \* options.skipWebPlatform and the optional provider methods
    store,          \* the Preference Store's content
    pc,             \* per call: the await it is suspended at ("idle": no call)
    loc,            \* per call: the locals of the running method
    res,            \* the call that settled in the last step, and what it observed
    hist,           \* history since the last reset: when and for which version the
                    \* last prompt was shown (promptAt, promptVersion), when the
                    \* last completed setRemindMeLater() read the clock (remindAt,
                    \* Null once cleared) and the version it deferred (deferred),
                    \* how many setRemindMeLater() calls resolved on a store
                    \* that counts dismissals (dismissals), whether the last
                    \* call to settle that may write the store was a
                    \* resetVersionCheckData() that resolved (reset)
    ui,             \* VersionCheckProvider: the React state isChecking and
                    \* showUpdateDialog, and the isChecking value captured by the
                    \* checkForUpdates callback the UI layer holds (captured);
                    \* mount: the identities of the props of the last render,
                    \* how the options prop was passed, the dependencies and
                    \* the engine instance useMemo holds, the engine the
                    \* initialize effect last ran for, and since the mount the
                    \* number of engines constructed, of initialize() and
                    \* dispose() calls made by the effect, of renders, and of
                    \* renders that brought a new provider object
    initialized,    \* VersionChecker.initialized
    hooks,          \* which of initialize / dispose each provider has
    fn,             \* the call of a pure helper (platform detection, version
                    \* comparison, sorting, store URL) under evaluation: its
                    \* name, its arguments and, once it returned, its result
    life            \* history of the lifecycle since the last step of a dispose()
                    \* call: how often each provider's initialize hook completed
                    \* (dataInits, storeInits), whether an initialize() call
                    \* resolved (initResolved), the method whose hook threw
                    \* (threw); whether the last call to settle was a dispose()
                    \* that resolved (disposed); the hook each provider ran last
                    \* (dataLast, storeLast)

lifecycleVars == <<initialized, hooks, life>>

vars == <<clock, platform, latestVersion, mandatory, cfg, store, pc, loc, res, hist,
          ui, initialized, hooks, life, fn>>

\* JavaScript truthiness of number | null (null, undefined and 0 are falsy)
Truthy(n) == n # Null /\ n # 0

EmptyStore ==
    [lastCheckTime |-> Null, remindLaterTime |-> Null,
     lastShownVersion |-> NoVersion, dismissCount |-> 0]

NoHist ==
    [promptAt |-> Null, promptVersion |-> NoVersion,
     remindAt |-> Null, deferred |-> NoVersion, dismissals |-> 0,
     reset |-> FALSE]

\* The lifecycle hooks a provider pair has
Hooks(dataInitialize, storeInitialize, dataDispose, storeDispose) ==
    [dataInitialize |-> dataInitialize, storeInitialize |-> storeInitialize,
     dataDispose |-> dataDispose, storeDispose |-> storeDispose]

NoHooks == Hooks(FALSE, FALSE, FALSE, FALSE)

\* A VersionCheckProvider before its first render: no engine memoized, no
\* effect run, no object created by a render
NoMount ==
    [props |-> [dataProvider |-> 0, storageProvider |-> 0, options |-> 0],
     optionsProp |-> "none", memoDeps |-> << >>, engine |-> 0, effectEngine |-> 0,
     constructed |-> 0, initializeCalls |-> 0, disposeCalls |-> 0,
     renders |-> 0, providerChanges |-> 0, nextObject |-> 1]

NoVersionInfo ==
    [currentVersion |-> NoVersion, latestVersion |-> NoVersion,
     updateAvailable |-> FALSE, storeUrl |-> NoUrl, platform |-> "none"]

\* useState(false) for isChecking and showUpdateDialog, useState(null) for
\* versionInfo, at the first render
NoUi == [isChecking |-> FALSE, captured |-> FALSE, showUpdateDialog |-> FALSE,
         showUpdatePrompt |-> FALSE, versionInfo |-> NoVersionInfo,
         mount |-> NoMount]

NoLife ==
    [dataInits |-> 0, storeInits |-> 0, initResolved |-> FALSE, threw |-> "none",
     disposed |-> FALSE, dataLast |-> "none", storeLast |-> "none"]

\* No helper call under evaluation
NoCall == [name |-> "none", args |-> << >>, returned |-> FALSE, result |-> << >>]

IdleLoc ==
    [op |-> "none", platform |-> "none", vi |-> NoVersionInfo, calls |-> {},
     failed |-> FALSE, pre |-> EmptyStore, hist0 |-> NoHist,
     t0 |-> Null, tEval |-> Null, remindTime |-> Null, isMandatory |-> FALSE,
     current |-> 0, life0 |-> NoLife, wasInitialized |-> FALSE, error |-> "none",
     thrown |-> {}, storeCalls |-> 0]

NoRes ==
    [op |-> "none", outcome |-> "none", shouldShowPrompt |-> FALSE,
     skipReason |-> "none", versionInfo |-> NoVersionInfo, bool |-> FALSE,
     platform |-> "none", calls |-> {}, failed |-> FALSE, pre |-> EmptyStore,
     hist0 |-> NoHist, hist1 |-> NoHist, t0 |-> Null, tEval |-> Null, t |-> Null,
     life0 |-> NoLife, wasInitialized |-> FALSE, error |-> "none",
     thrown |-> {}, storeCalls |-> 0]

\* constructor: options.skipWebPlatform and which optional methods the two
\* providers have (the engine tests each method's presence before calling it)
Config(skipWeb, lastShown, hook, increment, clearAll) ==
    [skipWebPlatform |-> skipWeb,
     getLastShownVersion |-> lastShown, setLastShownVersion |-> lastShown,
     isUpdateMandatory |-> hook,
     incrementDismissCount |-> increment, clearAll |-> clearAll]

\* The engines of the model:
\*  - a store that records the last shown version and has clearAll, a Data
\*    Source with the isUpdateMandatory hook, web skipped (the default)
\*  - a built-in store (InMemory-, LocalStorage-, AsyncStorageProvider: every
\*    optional method), a Data Source without the hook, web skipped
\*  - a store with the required methods only, no hook, web not skipped
\*  - a store that records the last shown version but has no clearAll, no
\*    hook, web not skipped
Configs ==
    {Config(TRUE, TRUE, TRUE, FALSE, TRUE),
     Config(TRUE, TRUE, FALSE, TRUE, TRUE),
     Config(FALSE, FALSE, FALSE, FALSE, FALSE),
     Config(FALSE, TRUE, FALSE, FALSE, FALSE)}

Init ==
    /\ clock = StartTime
    /\ platform \in DetectorAnswers
    /\ latestVersion \in LatestVersions
    /\ cfg \in Configs
    /\ mandatory \in (IF cfg.isUpdateMandatory THEN BOOLEAN ELSE {FALSE})
    /\ store = EmptyStore
    /\ pc = [p \in Procs |-> "idle"]
    /\ loc = [p \in Procs |-> IdleLoc]
    /\ res = NoRes
    /\ hist = NoHist
    /\ ui = NoUi
    /\ fn = NoCall
    /\ initialized = FALSE
    /\ hooks = NoHooks
    /\ life = NoLife

AllIdle == \A p \in Procs : pc[p] = "idle"

(***************************************************************************)
(* The environment: time passes, the providers' answers change.            *)
(***************************************************************************)
\* Time passes between two calls and, within a call, before each step that
\* reads Date.now() or uses a value computed from it (elsewhere a tick commutes
\* with the step)
Tick ==
    /\ \A p \in Procs : pc[p] \in {"idle", "ssp_remind", "ssp_last", "ssp_setLast", "rml_set"}
    /\ clock < MaxTime
    /\ clock' = clock + 1
    /\ res' = NoRes
    /\ UNCHANGED <<platform, latestVersion, mandatory, cfg, store, pc, loc, hist, lifecycleVars, ui, fn>>

\* The detector may answer differently the next time it is asked: between two
\* calls of the engine, and before getVersionInfo() asks it again (in the web
\* branch, in the try block and in the catch block)
SetPlatform ==
    /\ \A p \in Procs : pc[p] \in {"idle", "ssp_web", "ssp_vi", "ssp_catch"}
    /\ \E pf \in DetectorAnswers \ {platform} : platform' = pf
    /\ res' = NoRes
    /\ UNCHANGED <<clock, latestVersion, mandatory, cfg, store, pc, loc, hist, lifecycleVars, ui, fn>>

SetLatestVersion ==
    /\ AllIdle
    /\ \E v \in LatestVersions \ {latestVersion} : latestVersion' = v
    /\ res' = NoRes
    /\ UNCHANGED <<clock, platform, mandatory, cfg, store, pc, loc, hist, lifecycleVars, ui, fn>>

SetMandatory ==
    /\ AllIdle
    /\ cfg.isUpdateMandatory
    /\ mandatory' = ~mandatory
    /\ res' = NoRes
    /\ UNCHANGED <<clock, platform, latestVersion, cfg, store, pc, loc, hist, lifecycleVars, ui, fn>>

(***************************************************************************)
(* VersionChecker: helpers shared by its methods.                          *)
(***************************************************************************)
DataSourceOps == {"getCurrentVersion", "getLatestVersion", "getAppStoreConfig",
                  "isUpdateMandatory"}
StoreReadOps == {"getRemindLaterTime", "getLastCheckTime", "getLastShownVersion",
                 "getDismissCount"}
StoreWriteOps == {"setLastCheckTime", "setLastShownVersion", "setRemindLaterTime",
                  "clearRemindLaterTime", "incrementDismissCount", "clearAll"}
StoreOps == StoreReadOps \cup StoreWriteOps

\* Faulty variants: the web test dropped; the platform test dropped
SkipWeb_Never(pf) == FALSE
SkipWeb_AnyPlatform(pf) == cfg.skipWebPlatform

\* platform === 'web' && this.options.skipWebPlatform
SkipWeb(pf) == pf = "web" /\ cfg.skipWebPlatform

\* Faulty variants: the comparison turned round; the test dropped
InRemindLaterPeriod_Flipped(remindLaterTime, now) ==
    Truthy(remindLaterTime) /\ now > remindLaterTime
InRemindLaterPeriod_Never(remindLaterTime, now) == FALSE

\* remindLaterTime && Date.now() < remindLaterTime
InRemindLaterPeriod(remindLaterTime, now) ==
    Truthy(remindLaterTime) /\ now < remindLaterTime

\* Faulty variant: the comparison turned round
TooSoon_Flipped(lastCheckTime, now) ==
    Truthy(lastCheckTime) /\ now - lastCheckTime > MinCheckInterval

\* lastCheckTime && Date.now() - lastCheckTime < this.options.minCheckInterval
TooSoon(lastCheckTime, now) ==
    Truthy(lastCheckTime) /\ now - lastCheckTime < MinCheckInterval

\* Faulty variants: the duration left out; the clock left out
RemindTime_NoDuration(now) == now
RemindTime_DurationOnly(now) == RemindLaterDuration

\* const remindTime = Date.now() + this.options.remindLaterDuration
RemindTime(now) == now + RemindLaterDuration

\* Faulty variant: compared with the installed version instead of the latest
AlreadyShown_Current(lastShownVersion, latest) == lastShownVersion = CurrentVersion

\* lastShownVersion === versionInfo.latestVersion
AlreadyShown(lastShownVersion, latest) == lastShownVersion = latest

\* Faulty variant: an unknown latest version counts as an update
VersionInfoOf_UnknownIsUpdate(pf, latest) ==
    [currentVersion |-> CurrentVersion,
     latestVersion |-> latest,
     updateAvailable |-> IF latest # NoVersion
                         THEN isUpdateAvailable(CurrentVersion, latest)
                         ELSE TRUE,
     storeUrl |-> getStoreUrl(pf, AppStoreConfig),
     platform |-> pf]

\* getVersionInfo(): the VersionInfo composed from the Data Source's answers
VersionInfoOf(pf, latest) ==
    [currentVersion |-> CurrentVersion,
     latestVersion |-> latest,
     updateAvailable |-> IF latest # NoVersion
                         THEN isUpdateAvailable(CurrentVersion, latest)
                         ELSE FALSE,
     storeUrl |-> getStoreUrl(pf, AppStoreConfig),
     platform |-> pf]

\* The Data Source calls getVersionInfo() makes when its f-th call throws
\* (f = 0: none throws)
VersionInfoCalls(f) ==
    CASE f = 1 -> {"getCurrentVersion"}
      [] f = 2 -> {"getCurrentVersion", "getLatestVersion"}
      [] OTHER -> {"getCurrentVersion", "getLatestVersion", "getAppStoreConfig"}

\* The Data Source call of getVersionInfo() that throws, when its f-th does
VersionInfoThrower(f) ==
    CASE f = 1 -> "getCurrentVersion"
      [] f = 2 -> "getLatestVersion"
      [] OTHER -> "getAppStoreConfig"

\* A call starts: the method's frame, with what it finds at its start
Frame(op) ==
    [IdleLoc EXCEPT !.op = op, !.pre = store, !.hist0 = hist, !.t0 = clock,
                    !.life0 = life, !.wasInitialized = initialized]

\* What the settled call leaves in the history of the store
HistAfter(l, outcome, prompt) ==
    LET h == [hist EXCEPT !.reset =
                \/ l.op = "resetVersionCheckData" /\ outcome = "resolved"
                \/ @ /\ l.op \in {"getVersionInfo", "isUpdateAvailable"}]
    IN  CASE l.op = "shouldShowUpdatePrompt" /\ outcome = "resolved" /\ prompt ->
                [h EXCEPT !.promptAt = l.tEval,
                          !.promptVersion = l.vi.latestVersion,
                          !.deferred = NoVersion]
          [] l.op = "setRemindMeLater" /\ outcome = "resolved" ->
                [h EXCEPT !.remindAt = l.t0,
                          !.deferred = hist.promptVersion,
                          !.dismissals = IF cfg.incrementDismissCount
                                         THEN @ + 1 ELSE @]
          [] l.op = "resetVersionCheckData" /\ outcome = "resolved" /\ cfg.clearAll ->
                [h EXCEPT !.dismissals = 0]
          [] OTHER -> h

\* The call of p settles (resolves or rejects) with frame l
Settle(p, l, outcome, prompt, reason, b) ==
    /\ pc' = [pc EXCEPT ![p] = "idle"]
    /\ loc' = [loc EXCEPT ![p] = IdleLoc]
    /\ res' = [op |-> l.op, outcome |-> outcome, shouldShowPrompt |-> prompt,
               skipReason |-> reason, versionInfo |-> l.vi, bool |-> b,
               platform |-> l.platform, calls |-> l.calls, failed |-> l.failed,
               pre |-> l.pre, hist0 |-> l.hist0, hist1 |-> hist,
               t0 |-> l.t0, tEval |-> l.tEval, t |-> clock,
               life0 |-> l.life0, wasInitialized |-> l.wasInitialized,
               error |-> l.error, thrown |-> l.thrown,
               storeCalls |-> l.storeCalls]
    /\ hist' = HistAfter(l, outcome, prompt)

Resolve(p, l, prompt, reason) == Settle(p, l, "resolved", prompt, reason, FALSE)
Reject(p, l) ==
    Settle(p, [l EXCEPT !.vi = NoVersionInfo], "rejected", FALSE, "none", FALSE)

\* The call of p goes on to its next await with frame l
Goto(p, l, next) ==
    /\ pc' = [pc EXCEPT ![p] = next]
    /\ loc' = [loc EXCEPT ![p] = l]
    /\ res' = NoRes
    /\ UNCHANGED hist

\* The provider calls ops were made and returned
Called(l, ops) ==
    [l EXCEPT !.calls = @ \cup ops,
              !.storeCalls = @ + Cardinality(ops \cap StoreOps)]
\* The provider calls ops were made and the last of them, thrower, threw
Failed(l, ops, thrower) ==
    [l EXCEPT !.calls = @ \cup ops, !.failed = TRUE,
              !.storeCalls = @ + Cardinality(ops \cap StoreOps),
              !.thrown = @ \cup {thrower}]

(***************************************************************************)
(* shouldShowUpdatePrompt()                                                *)
(***************************************************************************)
\* const platform = this.getPlatform(); web platform skipped?
SSP_Begin(p) ==
    /\ pc[p] = "idle"
    /\ LET l == [Frame("shouldShowUpdatePrompt") EXCEPT !.platform = platform]
       IN  Goto(p, l, IF SkipWeb(platform) THEN "ssp_web" ELSE "ssp_vi")

SSP_Start(p) ==
    /\ SSP_Begin(p)
    /\ UNCHANGED <<clock, platform, latestVersion, mandatory, cfg, store, lifecycleVars, ui, fn>>

\* web platform: await this.getVersionInfo(), outside the try block
SSP_Web(p) ==
    /\ pc[p] = "ssp_web"
    /\ \E f \in 0..3 :
         IF f = 0
         THEN Resolve(p, [Called(loc[p], VersionInfoCalls(f))
                            EXCEPT !.vi = VersionInfoOf(platform, latestVersion)],
                      FALSE, "web_platform")
         ELSE Reject(p, Failed(loc[p], VersionInfoCalls(f), VersionInfoThrower(f)))
    /\ UNCHANGED <<clock, platform, latestVersion, mandatory, cfg, store, lifecycleVars, ui, fn>>

\* try { const versionInfo = await this.getVersionInfo(); no update available?
SSP_VersionInfo(p) ==
    /\ pc[p] = "ssp_vi"
    /\ \E f \in 0..3 :
         IF f = 0
         THEN LET l == [Called(loc[p], VersionInfoCalls(f))
                          EXCEPT !.vi = VersionInfoOf(platform, latestVersion)]
              IN  IF ~l.vi.updateAvailable
                  THEN Resolve(p, l, FALSE, "no_update")
                  ELSE Goto(p, l, "ssp_remind")
         ELSE Goto(p, Failed(loc[p], VersionInfoCalls(f), VersionInfoThrower(f)), "ssp_catch")
    /\ UNCHANGED <<clock, platform, latestVersion, mandatory, cfg, store, lifecycleVars, ui, fn>>

\* await this.storageProvider.getRemindLaterTime(): "remind me later" period?
SSP_RemindLater(p) ==
    /\ pc[p] = "ssp_remind"
    /\ \E ok \in BOOLEAN :
         IF ok
         THEN LET l == Called(loc[p], {"getRemindLaterTime"})
              IN  IF InRemindLaterPeriod(store.remindLaterTime, clock)
                  THEN Resolve(p, l, FALSE, "remind_later")
                  ELSE Goto(p, l, "ssp_last")
         ELSE Goto(p, Failed(loc[p], {"getRemindLaterTime"}, "getRemindLaterTime"), "ssp_catch")
    /\ UNCHANGED <<clock, platform, latestVersion, mandatory, cfg, store, lifecycleVars, ui, fn>>

\* await this.storageProvider.getLastCheckTime(): minimum interval between checks
SSP_LastCheck(p) ==
    /\ pc[p] = "ssp_last"
    /\ \E ok \in BOOLEAN :
         IF ok
         THEN LET l == Called(loc[p], {"getLastCheckTime"})
              IN  IF TooSoon(store.lastCheckTime, clock)
                  THEN Resolve(p, l, FALSE, "too_soon")
                  ELSE Goto(p, l, IF cfg.getLastShownVersion
                                  THEN "ssp_shown" ELSE "ssp_setLast")
         ELSE Goto(p, Failed(loc[p], {"getLastCheckTime"}, "getLastCheckTime"), "ssp_catch")
    /\ UNCHANGED <<clock, platform, latestVersion, mandatory, cfg, store, lifecycleVars, ui, fn>>

\* await this.storageProvider.getLastShownVersion(): version already shown?
SSP_LastShown(p) ==
    /\ pc[p] = "ssp_shown"
    /\ \E ok \in BOOLEAN :
         IF ok
         THEN LET l == Called(loc[p], {"getLastShownVersion"})
              IN  IF AlreadyShown(store.lastShownVersion, l.vi.latestVersion)
                  THEN IF cfg.isUpdateMandatory
                       THEN Goto(p, l, "ssp_mand")
                       ELSE Resolve(p, l, FALSE, "remind_later")
                  ELSE Goto(p, l, "ssp_setLast")
         ELSE Goto(p, Failed(loc[p], {"getLastShownVersion"}, "getLastShownVersion"), "ssp_catch")
    /\ UNCHANGED <<clock, platform, latestVersion, mandatory, cfg, store, lifecycleVars, ui, fn>>

\* await this.dataProvider.isUpdateMandatory(currentVersion, latestVersion)
SSP_Mandatory(p) ==
    /\ pc[p] = "ssp_mand"
    /\ \E ok \in BOOLEAN :
         IF ok
         THEN LET l == [Called(loc[p], {"isUpdateMandatory"})
                          EXCEPT !.isMandatory = mandatory]
              IN  IF ~l.isMandatory
                  THEN Resolve(p, l, FALSE, "remind_later")
                  ELSE Goto(p, l, "ssp_setLast")
         ELSE Goto(p, Failed(loc[p], {"isUpdateMandatory"}, "isUpdateMandatory"), "ssp_catch")
    /\ UNCHANGED <<clock, platform, latestVersion, mandatory, cfg, store, lifecycleVars, ui, fn>>

\* Faulty variant: the time read at the start of the call is stored
SSP_SetLastCheck_StartTime(p) ==
    /\ pc[p] = "ssp_setLast"
    /\ LET l == [Called(loc[p], {"setLastCheckTime"}) EXCEPT !.tEval = clock]
       IN  /\ store' = [store EXCEPT !.lastCheckTime = loc[p].t0]
           /\ IF cfg.setLastShownVersion /\ l.vi.latestVersion # NoVersion
              THEN Goto(p, l, "ssp_setShown")
              ELSE Resolve(p, l, TRUE, "none")
    /\ UNCHANGED <<clock, platform, latestVersion, mandatory, cfg, lifecycleVars, ui, fn>>

\* await this.storageProvider.setLastCheckTime(Date.now())
SSP_SetLastCheck(p) ==
    /\ pc[p] = "ssp_setLast"
    /\ \E ok \in BOOLEAN :
         IF ok
         THEN LET l == [Called(loc[p], {"setLastCheckTime"}) EXCEPT !.tEval = clock]
              IN  /\ store' = [store EXCEPT !.lastCheckTime = clock]
                  /\ IF cfg.setLastShownVersion /\ l.vi.latestVersion # NoVersion
                     THEN Goto(p, l, "ssp_setShown")
                     ELSE Resolve(p, l, TRUE, "none")
         ELSE /\ Goto(p, Failed(loc[p], {"setLastCheckTime"}, "setLastCheckTime"), "ssp_catch")
              /\ UNCHANGED store
    /\ UNCHANGED <<clock, platform, latestVersion, mandatory, cfg, lifecycleVars, ui, fn>>

\* await this.storageProvider.setLastShownVersion(versionInfo.latestVersion)
SSP_SetLastShown(p) ==
    /\ pc[p] = "ssp_setShown"
    /\ \E ok \in BOOLEAN :
         IF ok
         THEN /\ store' = [store EXCEPT !.lastShownVersion = loc[p].vi.latestVersion]
              /\ Resolve(p, Called(loc[p], {"setLastShownVersion"}), TRUE, "none")
         ELSE /\ Goto(p, Failed(loc[p], {"setLastShownVersion"}, "setLastShownVersion"), "ssp_catch")
              /\ UNCHANGED store
    /\ UNCHANGED <<clock, platform, latestVersion, mandatory, cfg, lifecycleVars, ui, fn>>

\* Faulty variant: the catch block answers with the try block's versionInfo
SSP_Catch_StaleInfo(p) ==
    /\ pc[p] = "ssp_catch"
    /\ Resolve(p, loc[p], FALSE, "error")
    /\ UNCHANGED <<clock, platform, latestVersion, mandatory, cfg, store, lifecycleVars, ui, fn>>

\* catch (error) { const versionInfo = await this.getVersionInfo(); ... 'error' }
SSP_Catch(p) ==
    /\ pc[p] = "ssp_catch"
    /\ \E f \in 0..3 :
         IF f = 0
         THEN Resolve(p, [Called(loc[p], VersionInfoCalls(f))
                            EXCEPT !.vi = VersionInfoOf(platform, latestVersion)],
                      FALSE, "error")
         ELSE Reject(p, Failed(loc[p], VersionInfoCalls(f), VersionInfoThrower(f)))
    /\ UNCHANGED <<clock, platform, latestVersion, mandatory, cfg, store, lifecycleVars, ui, fn>>

(***************************************************************************)
(* getVersionInfo() and isUpdateAvailable()                                *)
(***************************************************************************)
GVI_Start(p) ==
    /\ pc[p] = "idle"
    /\ Goto(p, [Frame("getVersionInfo") EXCEPT !.platform = platform], "gvi_vi")
    /\ UNCHANGED <<clock, platform, latestVersion, mandatory, cfg, store, lifecycleVars, ui, fn>>

\* Faulty variant: the fetch is recorded as a check in the Preference Store
GVI_VersionInfo_Recorded(p) ==
    /\ pc[p] = "gvi_vi"
    /\ LET l == [Called(loc[p], VersionInfoCalls(0) \cup {"setLastCheckTime"})
                   EXCEPT !.vi = VersionInfoOf(platform, latestVersion)]
       IN  Settle(p, l, "resolved", FALSE, "none", l.vi.updateAvailable)
    /\ store' = [store EXCEPT !.lastCheckTime = clock]
    /\ UNCHANGED <<clock, platform, latestVersion, mandatory, cfg, lifecycleVars, ui, fn>>

\* const currentVersion = await ...; latestVersion = await ...; appStoreConfig =
\* await ...; return { currentVersion, latestVersion, updateAvailable, ... }
GVI_VersionInfo(p) ==
    /\ pc[p] = "gvi_vi"
    /\ \E f \in 0..3 :
         IF f = 0
         THEN LET l == [Called(loc[p], VersionInfoCalls(f))
                          EXCEPT !.vi = VersionInfoOf(platform, latestVersion)]
              IN  Settle(p, l, "resolved", FALSE, "none", l.vi.updateAvailable)
         ELSE Reject(p, Failed(loc[p], VersionInfoCalls(f), VersionInfoThrower(f)))
    /\ UNCHANGED <<clock, platform, latestVersion, mandatory, cfg, store, lifecycleVars, ui, fn>>

\* if (platform === 'web' && this.options.skipWebPlatform) return false;
IUA_Start(p) ==
    /\ pc[p] = "idle"
    /\ LET l == [Frame("isUpdateAvailable") EXCEPT !.platform = platform]
       IN  IF SkipWeb(platform)
           THEN Settle(p, l, "resolved", FALSE, "none", FALSE)
           ELSE Goto(p, l, "iua_vi")
    /\ UNCHANGED <<clock, platform, latestVersion, mandatory, cfg, store, lifecycleVars, ui, fn>>

\* const versionInfo = await this.getVersionInfo(); return versionInfo.updateAvailable;
IUA_VersionInfo(p) ==
    /\ pc[p] = "iua_vi"
    /\ \E f \in 0..3 :
         IF f = 0
         THEN LET l == [Called(loc[p], VersionInfoCalls(f))
                          EXCEPT !.vi = VersionInfoOf(platform, latestVersion)]
              IN  Settle(p, l, "resolved", FALSE, "none", l.vi.updateAvailable)
         ELSE Reject(p, Failed(loc[p], VersionInfoCalls(f), VersionInfoThrower(f)))
    /\ UNCHANGED <<clock, platform, latestVersion, mandatory, cfg, store, lifecycleVars, ui, fn>>

(***************************************************************************)
(* setRemindMeLater() and clearRemindMeLater()                             *)
(***************************************************************************)
\* const remindTime = Date.now() + this.options.remindLaterDuration;
RML_Start(p) ==
    /\ pc[p] = "idle"
    /\ cfg.incrementDismissCount => store.dismissCount < MaxDismiss
    /\ Goto(p, [Frame("setRemindMeLater")
                  EXCEPT !.remindTime = RemindTime(clock)], "rml_set")
    /\ UNCHANGED <<clock, platform, latestVersion, mandatory, cfg, store, lifecycleVars, ui, fn>>

\* await this.storageProvider.setRemindLaterTime(remindTime);
RML_SetRemindLater(p) ==
    /\ pc[p] = "rml_set"
    /\ \E ok \in BOOLEAN :
         IF ok
         THEN /\ store' = [store EXCEPT !.remindLaterTime = loc[p].remindTime]
              /\ LET l == Called(loc[p], {"setRemindLaterTime"})
                 IN  IF cfg.incrementDismissCount
                     THEN Goto(p, l, "rml_incRead")
                     ELSE Resolve(p, l, FALSE, "none")
         ELSE /\ Reject(p, Failed(loc[p], {"setRemindLaterTime"}, "setRemindLaterTime"))
              /\ UNCHANGED store
    /\ UNCHANGED <<clock, platform, latestVersion, mandatory, cfg, lifecycleVars, ui, fn>>

\* incrementDismissCount(): const current = await this.getDismissCount();
RML_IncrementRead(p) ==
    /\ pc[p] = "rml_incRead"
    /\ \E ok \in BOOLEAN :
         IF ok
         THEN Goto(p, [Called(loc[p], {"incrementDismissCount", "getDismissCount"})
                         EXCEPT !.current = store.dismissCount], "rml_incWrite")
         ELSE Reject(p, Failed(loc[p], {"incrementDismissCount", "getDismissCount"}, "getDismissCount"))
    /\ UNCHANGED <<clock, platform, latestVersion, mandatory, cfg, store, lifecycleVars, ui, fn>>

\* incrementDismissCount(): this.storage.set('dismissCount', current + 1);
RML_IncrementWrite(p) ==
    /\ pc[p] = "rml_incWrite"
    /\ \E ok \in BOOLEAN :
         IF ok
         THEN /\ store' = [store EXCEPT !.dismissCount = loc[p].current + 1]
              /\ Resolve(p, loc[p], FALSE, "none")
         ELSE /\ Reject(p, Failed(loc[p], {}, "incrementDismissCount"))
              /\ UNCHANGED store
    /\ UNCHANGED <<clock, platform, latestVersion, mandatory, cfg, lifecycleVars, ui, fn>>

CRL_Start(p) ==
    /\ pc[p] = "idle"
    /\ pc' = [pc EXCEPT ![p] = "crl_clear"]
    /\ loc' = [loc EXCEPT ![p] = Frame("clearRemindMeLater")]
    /\ hist' = [hist EXCEPT !.remindAt = Null]
    /\ res' = NoRes
    /\ UNCHANGED <<clock, platform, latestVersion, mandatory, cfg, store, lifecycleVars, ui, fn>>

\* await this.storageProvider.clearRemindLaterTime();
CRL_Clear(p) ==
    /\ pc[p] = "crl_clear"
    /\ \E ok \in BOOLEAN :
         IF ok
         THEN /\ store' = [store EXCEPT !.remindLaterTime = Null]
              /\ Resolve(p, Called(loc[p], {"clearRemindLaterTime"}), FALSE, "none")
         ELSE /\ Reject(p, Failed(loc[p], {"clearRemindLaterTime"}, "clearRemindLaterTime"))
              /\ UNCHANGED store
    /\ UNCHANGED <<clock, platform, latestVersion, mandatory, cfg, lifecycleVars, ui, fn>>

(***************************************************************************)
(* resetVersionCheckData()                                                 *)
(***************************************************************************)
RST_Start(p) ==
    /\ pc[p] = "idle"
    /\ pc' = [pc EXCEPT ![p] = "rst_clear"]
    /\ loc' = [loc EXCEPT ![p] = Frame("resetVersionCheckData")]
    /\ hist' = [NoHist EXCEPT !.dismissals = hist.dismissals]
    /\ res' = NoRes
    /\ UNCHANGED <<clock, platform, latestVersion, mandatory, cfg, store, lifecycleVars, ui, fn>>

\* await this.storageProvider.clearRemindLaterTime();
RST_Clear(p) ==
    /\ pc[p] = "rst_clear"
    /\ \E ok \in BOOLEAN :
         IF ok
         THEN /\ store' = [store EXCEPT !.remindLaterTime = Null]
              /\ Goto(p, Called(loc[p], {"clearRemindLaterTime"}), "rst_setLast")
         ELSE /\ Reject(p, Failed(loc[p], {"clearRemindLaterTime"}, "clearRemindLaterTime"))
              /\ UNCHANGED store
    /\ UNCHANGED <<clock, platform, latestVersion, mandatory, cfg, lifecycleVars, ui, fn>>

\* await this.storageProvider.setLastCheckTime(0);
RST_SetLastCheck(p) ==
    /\ pc[p] = "rst_setLast"
    /\ \E ok \in BOOLEAN :
         IF ok
         THEN /\ store' = [store EXCEPT !.lastCheckTime = 0]
              /\ LET l == Called(loc[p], {"setLastCheckTime"})
                 IN  IF cfg.clearAll
                     THEN Goto(p, l, "rst_clearAll")
                     ELSE Resolve(p, l, FALSE, "none")
         ELSE /\ Reject(p, Failed(loc[p], {"setLastCheckTime"}, "setLastCheckTime"))
              /\ UNCHANGED store
    /\ UNCHANGED <<clock, platform, latestVersion, mandatory, cfg, lifecycleVars, ui, fn>>

\* if (this.storageProvider.clearAll) await this.storageProvider.clearAll();
RST_ClearAll(p) ==
    /\ pc[p] = "rst_clearAll"
    /\ \E ok \in BOOLEAN :
         IF ok
         THEN /\ store' = EmptyStore
              /\ Resolve(p, Called(loc[p], {"clearAll"}), FALSE, "none")
         ELSE /\ Reject(p, Failed(loc[p], {"clearAll"}, "clearAll"))
              /\ UNCHANGED store
    /\ UNCHANGED <<clock, platform, latestVersion, mandatory, cfg, lifecycleVars, ui, fn>>

(***************************************************************************)
(* Specification: the engine's operations, called one after another (a     *)
(* call starts only when no other call is in flight).                      *)
(***************************************************************************)
Start(p) ==
    \/ SSP_Start(p)
    \/ GVI_Start(p)
    \/ IUA_Start(p)
    \/ RML_Start(p)
    \/ CRL_Start(p)
    \/ RST_Start(p)

Step(p) ==
    \/ SSP_Web(p)
    \/ SSP_VersionInfo(p)
    \/ SSP_RemindLater(p)
    \/ SSP_LastCheck(p)
    \/ SSP_LastShown(p)
    \/ SSP_Mandatory(p)
    \/ SSP_SetLastCheck(p)
    \/ SSP_SetLastShown(p)
    \/ SSP_Catch(p)
    \/ GVI_VersionInfo(p)
    \/ IUA_VersionInfo(p)
    \/ RML_SetRemindLater(p)
    \/ RML_IncrementRead(p)
    \/ RML_IncrementWrite(p)
    \/ CRL_Clear(p)
    \/ RST_Clear(p)
    \/ RST_SetLastCheck(p)
    \/ RST_ClearAll(p)

Environment ==
    \/ Tick
    \/ SetPlatform
    \/ SetLatestVersion
    \/ SetMandatory

Next ==
    \/ Environment
    \/ AllIdle /\ Start(Caller)
    \/ \E p \in Procs : Step(p)

Spec == Init /\ [][Next]_vars

(***************************************************************************)
(* The engine's lifecycle: initialize() and dispose().  A provider's hook  *)
(* runs, and may throw, at the await that calls it.                        *)
(***************************************************************************)
engineVars == <<clock, platform, latestVersion, mandatory, cfg, store>>

\* The history once a step of dispose() has run
Disposing(lf) ==
    [NoLife EXCEPT !.dataLast = lf.dataLast, !.storeLast = lf.storeLast]

\* Faulty variant: the flag is not set
InitializeDone_FlagNotSet(p, l, lf) ==
    /\ UNCHANGED initialized
    /\ life' = [lf EXCEPT !.initResolved = TRUE, !.disposed = FALSE]
    /\ Settle(p, l, "resolved", FALSE, "none", FALSE)

\* An initialize() call resolves: this.initialized = true
InitializeDone(p, l, lf) ==
    /\ initialized' = TRUE
    /\ life' = [lf EXCEPT !.initResolved = TRUE, !.disposed = FALSE]
    /\ Settle(p, l, "resolved", FALSE, "none", FALSE)

\* Faulty variant: the flag is not cleared
DisposeDone_FlagKept(p, l, lf) ==
    /\ UNCHANGED initialized
    /\ life' = [Disposing(lf) EXCEPT !.disposed = TRUE]
    /\ Settle(p, l, "resolved", FALSE, "none", FALSE)

\* A dispose() call resolves: this.initialized = false
DisposeDone(p, l, lf) ==
    /\ initialized' = FALSE
    /\ life' = [Disposing(lf) EXCEPT !.disposed = TRUE]
    /\ Settle(p, l, "resolved", FALSE, "none", FALSE)

\* Faulty variant: the hook's error is swallowed and the method goes on to its end
HookThrows_Swallowed(p, hook) ==
    /\ life' = [life EXCEPT !.threw = loc[p].op, !.disposed = FALSE]
    /\ initialized' = (loc[p].op = "initialize")
    /\ Settle(p, Failed(loc[p], {hook}, hook), "resolved", FALSE, "none", FALSE)

\* The hook called at an await throws: the call rejects with the hook's error
HookThrows(p, hook) ==
    /\ life' = [IF loc[p].op = "dispose" THEN Disposing(life) ELSE life
                  EXCEPT !.threw = loc[p].op, !.disposed = FALSE]
    /\ UNCHANGED initialized
    /\ Reject(p, [Failed(loc[p], {hook}, hook) EXCEPT !.error = hook])

\* if (this.initialized) return; if (this.dataProvider.initialize) ...
INIT_Start(p) ==
    /\ pc[p] = "idle"
    /\ life.dataInits < MaxInits /\ life.storeInits < MaxInits
    /\ LET l == Frame("initialize")
       IN  IF initialized
           THEN /\ Settle(p, l, "resolved", FALSE, "none", FALSE)
                /\ life' = [life EXCEPT !.disposed = FALSE]
                /\ UNCHANGED initialized
           ELSE IF hooks.dataInitialize
           THEN Goto(p, l, "init_data") /\ UNCHANGED <<initialized, life>>
           ELSE IF hooks.storeInitialize
           THEN Goto(p, l, "init_store") /\ UNCHANGED <<initialized, life>>
           ELSE InitializeDone(p, l, life)
    /\ UNCHANGED <<engineVars, hooks, ui, fn>>

\* await this.dataProvider.initialize(); if (this.storageProvider.initialize) ...
INIT_Data(p) ==
    /\ pc[p] = "init_data"
    /\ \E ok \in BOOLEAN :
         IF ok
         THEN LET l == Called(loc[p], {"dataProvider.initialize"})
                  lf == [life EXCEPT !.dataInits = @ + 1, !.dataLast = "initialize"]
              IN  IF hooks.storeInitialize
                  THEN Goto(p, l, "init_store") /\ life' = lf /\ UNCHANGED initialized
                  ELSE InitializeDone(p, l, lf)
         ELSE HookThrows(p, "dataProvider.initialize")
    /\ UNCHANGED <<engineVars, hooks, ui, fn>>

\* await this.storageProvider.initialize(); this.initialized = true;
INIT_Store(p) ==
    /\ pc[p] = "init_store"
    /\ \E ok \in BOOLEAN :
         IF ok
         THEN InitializeDone(p, Called(loc[p], {"storageProvider.initialize"}),
                             [life EXCEPT !.storeInits = @ + 1,
                                          !.storeLast = "initialize"])
         ELSE HookThrows(p, "storageProvider.initialize")
    /\ UNCHANGED <<engineVars, hooks, ui, fn>>

\* dispose(): if (this.dataProvider.dispose) ...
DSP_Start(p) ==
    /\ pc[p] = "idle"
    /\ LET l == Frame("dispose")
           lf == Disposing(life)
       IN  IF hooks.dataDispose
           THEN Goto(p, l, "disp_data") /\ life' = lf /\ UNCHANGED initialized
           ELSE IF hooks.storeDispose
           THEN Goto(p, l, "disp_store") /\ life' = lf /\ UNCHANGED initialized
           ELSE DisposeDone(p, l, lf)
    /\ UNCHANGED <<engineVars, hooks, ui, fn>>

\* await this.dataProvider.dispose(); if (this.storageProvider.dispose) ...
DSP_Data(p) ==
    /\ pc[p] = "disp_data"
    /\ \E ok \in BOOLEAN :
         IF ok
         THEN LET l == Called(loc[p], {"dataProvider.dispose"})
                  lf == [Disposing(life) EXCEPT !.dataLast = "dispose"]
              IN  IF hooks.storeDispose
                  THEN Goto(p, l, "disp_store") /\ life' = lf /\ UNCHANGED initialized
                  ELSE DisposeDone(p, l, lf)
         ELSE HookThrows(p, "dataProvider.dispose")
    /\ UNCHANGED <<engineVars, hooks, ui, fn>>

\* await this.storageProvider.dispose(); this.initialized = false;
DSP_Store(p) ==
    /\ pc[p] = "disp_store"
    /\ \E ok \in BOOLEAN :
         IF ok
         THEN DisposeDone(p, Called(loc[p], {"storageProvider.dispose"}),
                          [Disposing(life) EXCEPT !.storeLast = "dispose"])
         ELSE HookThrows(p, "storageProvider.dispose")
    /\ UNCHANGED <<engineVars, hooks, ui, fn>>

\* A freshly constructed engine over providers with any of the four hooks
LifecycleInit ==
    /\ clock = StartTime
    /\ platform = "ios"
    /\ latestVersion = NoVersion
    /\ cfg = Config(TRUE, TRUE, FALSE, TRUE, TRUE)
    /\ mandatory = FALSE
    /\ store = EmptyStore
    /\ pc = [p \in Procs |-> "idle"]
    /\ loc = [p \in Procs |-> IdleLoc]
    /\ res = NoRes
    /\ hist = NoHist
    /\ ui = NoUi
    /\ fn = NoCall
    /\ initialized = FALSE
    /\ hooks \in {Hooks(di, si, dd, sd) : di \in BOOLEAN, si \in BOOLEAN,
                                          dd \in BOOLEAN, sd \in BOOLEAN}
    /\ life = NoLife

LifecycleStart(p) ==
    \/ INIT_Start(p)
    \/ DSP_Start(p)

LifecycleStep(p) ==
    \/ INIT_Data(p)
    \/ INIT_Store(p)
    \/ DSP_Data(p)
    \/ DSP_Store(p)

\* Lifecycle calls made one after another
LifecycleNext ==
    \/ AllIdle /\ LifecycleStart(Caller)
    \/ \E p \in Procs : LifecycleStep(p)

LifecycleSpec == LifecycleInit /\ [][LifecycleNext]_vars

\* Lifecycle calls that may overlap
LifecycleOverlapNext ==
    \/ \E p \in Procs : LifecycleStart(p)
    \/ \E p \in Procs : LifecycleStep(p)

LifecycleOverlapSpec == LifecycleInit /\ [][LifecycleOverlapNext]_vars

(***************************************************************************)
(* Properties.  res is the call that settled in the last step: res.pre and *)
(* res.hist0 are the store and the history it found at its start, res.t0   *)
(* and res.t the clock at its start and when it settled.                   *)
(***************************************************************************)
IsSSP == res.op = "shouldShowUpdatePrompt"
IsIUA == res.op = "isUpdateAvailable"
Resolved == res.outcome = "resolved"
Rejected == res.outcome = "rejected"
Healthy == ~res.failed

\* The throttles, stated on what the call found in the store
WebSkipped == res.platform = "web" /\ cfg.skipWebPlatform
RemindActiveAt(t) == res.pre.remindLaterTime # Null /\ t < res.pre.remindLaterTime
IntervalActiveAt(t) ==
    res.pre.lastCheckTime # Null /\ t - res.pre.lastCheckTime < MinCheckInterval
UpdateAvailable == res.versionInfo.updateAvailable

\* C1: shouldShowUpdatePrompt() never rejects, whatever the providers do; when a
\* provider call fails it resolves to shouldShowPrompt:false, skipReason 'error'.
C1_NeverRejects ==
    IsSSP => /\ Resolved
             /\ res.failed => ~res.shouldShowPrompt /\ res.skipReason = "error"

\* C2: shouldShowPrompt is true only if versionInfo.updateAvailable is true and
\* no throttle is active: the platform is not a skipped 'web', the stored
\* remindLaterTime (if any) is not in the future and the stored lastCheckTime
\* (if any) is at least minCheckInterval in the past.
C2_PromptOnlyWhenUnthrottled ==
    IsSSP /\ Resolved /\ res.shouldShowPrompt =>
        /\ UpdateAvailable
        /\ ~WebSkipped
        /\ res.pre.remindLaterTime # Null => res.pre.remindLaterTime <= res.t
        /\ res.pre.lastCheckTime # Null =>
               res.t - res.pre.lastCheckTime >= MinCheckInterval

\* A prompt is shown although both timestamps are stored (both have elapsed)
C2_Witness ==
    /\ IsSSP /\ Resolved /\ res.shouldShowPrompt
    /\ res.pre.remindLaterTime # Null
    /\ Truthy(res.pre.lastCheckTime)

LaterThanRemind ==
    {"getLastCheckTime", "getLastShownVersion", "isUpdateMandatory",
     "setLastCheckTime", "setLastShownVersion"}
LaterThanInterval ==
    {"getLastShownVersion", "isUpdateMandatory", "setLastCheckTime",
     "setLastShownVersion"}

\* C3: the skip conditions are evaluated in the fixed order web_platform,
\* no_update, remind_later, too_soon, already-shown; the first that applies is
\* the skipReason and no provider call of a later step is made.
C3_FixedOrder ==
    IsSSP /\ Resolved /\ Healthy =>
        /\ WebSkipped =>
              /\ res.skipReason = "web_platform"
              /\ res.calls \cap (StoreOps \cup {"isUpdateMandatory"}) = {}
        /\ ~WebSkipped /\ ~UpdateAvailable =>
              /\ res.skipReason = "no_update"
              /\ res.calls \cap (StoreOps \cup {"isUpdateMandatory"}) = {}
        /\ ~WebSkipped /\ UpdateAvailable /\ RemindActiveAt(res.t) =>
              /\ res.skipReason = "remind_later"
              /\ res.calls \cap LaterThanRemind = {}
        /\ ~WebSkipped /\ UpdateAvailable /\ ~RemindActiveAt(res.t0)
             /\ IntervalActiveAt(res.t) =>
              /\ res.skipReason = "too_soon"
              /\ res.calls \cap LaterThanInterval = {}
        /\ res.skipReason # "none" => res.calls \cap StoreWriteOps = {}

\* Both the remind-later window and the minimum-interval window are active
C3_Witness ==
    /\ IsSSP /\ Resolved /\ Healthy /\ ~WebSkipped /\ UpdateAvailable
    /\ RemindActiveAt(res.t) /\ IntervalActiveAt(res.t)
    /\ res.skipReason = "remind_later"

BuiltInStore ==
    /\ cfg.getLastShownVersion /\ cfg.setLastShownVersion
    /\ cfg.incrementDismissCount /\ cfg.clearAll

\* C6: after a prompt was shown for an update and the user chose
\* setRemindMeLater(), once the remind-later window has expired and
\* minCheckInterval has elapsed since the prompt, a call on a platform that is
\* not skipped, with the same update still available, returns
\* shouldShowPrompt:true again (with a built-in Preference Store).
C6_ReminderComesBack ==
    /\ IsSSP /\ Resolved /\ Healthy /\ BuiltInStore
    /\ ~WebSkipped /\ UpdateAvailable
    /\ res.hist0.deferred # NoVersion
    /\ res.hist0.deferred = res.versionInfo.latestVersion
    /\ res.hist0.remindAt # Null
    /\ res.hist0.remindAt + RemindLaterDuration <= res.t0
    /\ res.hist0.promptAt # Null
    /\ res.t0 - res.hist0.promptAt >= MinCheckInterval
    => res.shouldShowPrompt

\* C7: a mandatory update is shown whatever suppression rule would hide it: on
\* a platform that is not skipped, with an update available and the Data
\* Source's isUpdateMandatory hook answering true, the call returns
\* shouldShowPrompt:true.
C7_MandatoryAlwaysShown ==
    /\ IsSSP /\ Resolved /\ Healthy
    /\ ~WebSkipped /\ UpdateAvailable
    /\ cfg.isUpdateMandatory /\ mandatory
    => res.shouldShowPrompt

StepsOneToFourPass ==
    /\ ~WebSkipped /\ UpdateAvailable
    /\ ~RemindActiveAt(res.t0) /\ ~IntervalActiveAt(res.t0)

\* C8: when steps 1-4 do not apply and the store has getLastShownVersion and
\* the recorded version equals versionInfo.latestVersion, the result is
\* shouldShowPrompt:false with skipReason 'remind_later', unless the Data Source
\* has the isUpdateMandatory hook and it answers true: then the prompt is
\* shown.  Without getLastShownVersion the rule is skipped.
C8_AlreadyShownRule ==
    IsSSP /\ Resolved /\ Healthy /\ StepsOneToFourPass =>
        IF cfg.getLastShownVersion
             /\ res.pre.lastShownVersion = res.versionInfo.latestVersion
        THEN IF cfg.isUpdateMandatory /\ mandatory
             THEN res.shouldShowPrompt
             ELSE ~res.shouldShowPrompt /\ res.skipReason = "remind_later"
        ELSE res.shouldShowPrompt

\* The version was already shown and the hook says the update is mandatory
C8_Witness ==
    /\ IsSSP /\ Resolved /\ Healthy /\ StepsOneToFourPass
    /\ cfg.getLastShownVersion
    /\ res.pre.lastShownVersion = res.versionInfo.latestVersion
    /\ cfg.isUpdateMandatory /\ mandatory
    /\ res.shouldShowPrompt

\* C9: on platform 'web' with skipWebPlatform set, shouldShowUpdatePrompt()
\* returns shouldShowPrompt:false with skipReason 'web_platform' for every
\* latest version and every store state, with versionInfo attached, and makes no
\* read or write on the Preference Store.
C9_WebSkip ==
    IsSSP /\ res.platform = "web" /\ cfg.skipWebPlatform =>
        /\ res.calls \cap StoreOps = {}
        /\ store = res.pre
        /\ ~res.shouldShowPrompt
        /\ Resolved =>
              /\ res.skipReason = "web_platform"
              /\ res.versionInfo.currentVersion = CurrentVersion
              /\ res.versionInfo.latestVersion = latestVersion

\* Web is skipped although an update is available and the store is not empty
C9_Witness ==
    /\ IsSSP /\ Resolved /\ res.platform = "web" /\ cfg.skipWebPlatform
    /\ latestVersion # NoVersion
    /\ compareVersions(CurrentVersion, latestVersion) < 0
    /\ Truthy(res.pre.lastCheckTime)
    /\ res.skipReason = "web_platform"

\* C10: the engine's isUpdateAvailable() returns false without any Data Source
\* call when the platform is 'web' and skipWebPlatform is set; in every other
\* case it returns getVersionInfo().updateAvailable (and rejects exactly when
\* getVersionInfo() does).
C10_IsUpdateAvailable ==
    IsIUA =>
        IF res.platform = "web" /\ cfg.skipWebPlatform
        THEN Resolved /\ ~res.bool /\ res.calls = {}
        ELSE /\ Rejected <=> res.failed
             /\ Resolved =>
                   /\ res.bool = VersionInfoOf(res.platform, latestVersion).updateAvailable
                   /\ res.calls = {"getCurrentVersion", "getLatestVersion",
                                   "getAppStoreConfig"}

\* The shortcut is taken although the Data Source has a newer version
C10_Witness ==
    /\ IsIUA /\ res.platform = "web" /\ cfg.skipWebPlatform
    /\ latestVersion # NoVersion
    /\ compareVersions(CurrentVersion, latestVersion) < 0
    /\ ~res.bool

\* The integer a segment of decimal digits denotes (0 for a missing segment)
SegmentValue(v, i) ==
    IF i > Len(v) THEN 0
    ELSE LET d == v[i]
         IN  CASE Len(d) = 1 -> d[1]
               [] Len(d) = 2 -> 10 * d[1] + d[2]
               [] Len(d) = 3 -> 100 * d[1] + 10 * d[2] + d[3]

\* b is strictly greater than a under dotted-numeric comparison
NumericallyGreater(b, a) ==
    \E i \in 1..Max(Len(a), Len(b)) :
        /\ SegmentValue(b, i) > SegmentValue(a, i)
        /\ \A j \in 1..(i - 1) : SegmentValue(b, j) = SegmentValue(a, j)

HasVersionInfo ==
    res.op \in {"getVersionInfo", "shouldShowUpdatePrompt"} /\ Resolved

\* C11: in every VersionInfo produced by getVersionInfo(), and attached to a
\* shouldShowUpdatePrompt() result, updateAvailable is true if and only if
\* latestVersion is non-null and strictly greater than currentVersion under
\* dotted-numeric comparison; when it is not, a healthy evaluation on a platform
\* that is not skipped has skipReason 'no_update'.
C11_UpdateAvailableIffNewer ==
    HasVersionInfo =>
        LET newer ==
              /\ res.versionInfo.latestVersion # NoVersion
              /\ NumericallyGreater(res.versionInfo.latestVersion,
                                    res.versionInfo.currentVersion)
        IN  /\ res.versionInfo.updateAvailable <=> newer
            /\ IsSSP /\ Healthy /\ ~WebSkipped /\ ~newer =>
                   ~res.shouldShowPrompt /\ res.skipReason = "no_update"

\* Current "1.0.439" against latest "1.0.49": no update
C11_Witness ==
    /\ IsSSP /\ Resolved /\ Healthy
    /\ res.versionInfo.currentVersion = << <<1>>, <<0>>, <<4, 3, 9>> >>
    /\ res.versionInfo.latestVersion = << <<1>>, <<0>>, <<4, 9>> >>
    /\ ~res.versionInfo.updateAvailable
    /\ res.skipReason = "no_update"

IsRML == res.op = "setRemindMeLater"

\* C18 as stated: two setRemindMeLater() calls made at the same clock value
\* leave the Preference Store (remindLaterTime and the dismiss counter) in the
\* same state as a single call: the second call changes nothing.
C18_RepeatedCallSameState ==
    IsRML /\ Resolved /\ res.hist0.remindAt = res.t0 => store = res.pre

\* C18, amended: setRemindMeLater() writes remindLaterTime = now +
\* remindLaterDuration, so a call repeated at the same clock value leaves
\* remindLaterTime as the first left it and a later call restarts the window
\* from its own now; the dismiss counter, where the store has one, grows by one
\* with every call; nothing else in the store changes.
C18_RemindLaterWrite ==
    IsRML /\ Resolved =>
        /\ store.remindLaterTime = res.t0 + RemindLaterDuration
        /\ res.hist0.remindAt = res.t0 =>
               store.remindLaterTime = res.pre.remindLaterTime
        /\ store.dismissCount =
               res.pre.dismissCount + (IF cfg.incrementDismissCount THEN 1 ELSE 0)
        /\ store.lastCheckTime = res.pre.lastCheckTime
        /\ store.lastShownVersion = res.pre.lastShownVersion

\* A second call at the same clock value on a store that counts dismissals
C18_Witness ==
    /\ IsRML /\ Resolved /\ res.hist0.remindAt = res.t0
    /\ cfg.incrementDismissCount
    /\ res.pre.dismissCount = 1 /\ store.dismissCount = 2
    /\ store.remindLaterTime = res.pre.remindLaterTime

(***************************************************************************)
(* Overlapping calls on one engine: a caller that does not await a         *)
(* shouldShowUpdatePrompt() or setRemindMeLater() call before the next.    *)
(***************************************************************************)
NewerVersion == << <<1>>, <<0>>, <<4, 4, 0>> >>

\* A fresh engine on ios over a built-in store, an update available
OverlapInit ==
    /\ clock = StartTime
    /\ platform = "ios"
    /\ latestVersion = NewerVersion
    /\ cfg = Config(TRUE, TRUE, FALSE, TRUE, TRUE)
    /\ mandatory = FALSE
    /\ store = EmptyStore
    /\ pc = [p \in Procs |-> "idle"]
    /\ loc = [p \in Procs |-> IdleLoc]
    /\ res = NoRes
    /\ hist = NoHist
    /\ ui = NoUi
    /\ fn = NoCall
    /\ initialized = FALSE
    /\ hooks = NoHooks
    /\ life = NoLife

OverlapStart(p) ==
    \/ SSP_Start(p)
    \/ RML_Start(p)

OverlapStep(p) ==
    \/ SSP_VersionInfo(p)
    \/ SSP_RemindLater(p)
    \/ SSP_LastCheck(p)
    \/ SSP_LastShown(p)
    \/ SSP_SetLastCheck(p)
    \/ SSP_SetLastShown(p)
    \/ SSP_Catch(p)
    \/ RML_SetRemindLater(p)
    \/ RML_IncrementRead(p)
    \/ RML_IncrementWrite(p)

\* The overlapping calls of one burst run within one clock unit
OverlapNext ==
    \/ AllIdle /\ Tick
    \/ \E p \in Procs : OverlapStart(p)
    \/ \E p \in Procs : OverlapStep(p)

OverlapSpec == OverlapInit /\ [][OverlapNext]_vars

\* C16: if two shouldShowUpdatePrompt() calls overlap with an update available
\* and no throttle active, at most one of them returns shouldShowPrompt:true: a
\* call during which another call returned true does not return true.
C16_AtMostOnePrompt ==
    /\ IsSSP /\ Resolved
    /\ res.hist0.promptAt = Null /\ res.pre.lastCheckTime = Null
    /\ res.pre.remindLaterTime = Null
    /\ res.hist1.promptAt # Null
    => ~res.shouldShowPrompt

\* C20: getVersionInfo() and the engine's isUpdateAvailable() call none of the
\* Preference Store's operations and leave lastCheckTime, remindLaterTime, the
\* last shown version and the dismiss count unchanged.
C20_NoStoreSideEffects ==
    res.op \in {"getVersionInfo", "isUpdateAvailable"} =>
        /\ res.calls \cap StoreOps = {}
        /\ res.calls \subseteq DataSourceOps
        /\ store = res.pre

\* getVersionInfo() with an update available over a store that holds a last
\* check time, a last shown version and a dismiss count
C20_Witness ==
    /\ res.op = "getVersionInfo" /\ Resolved
    /\ res.versionInfo.updateAvailable
    /\ Truthy(res.pre.lastCheckTime)
    /\ res.pre.lastShownVersion # NoVersion
    /\ res.pre.dismissCount > 0
    /\ store = res.pre

\* C19: with a Preference Store that supports incrementDismissCount, after n
\* setRemindMeLater() calls have all resolved, one after another or overlapping,
\* the dismiss count is the previous count (0 on the fresh store) plus n.
C19_DismissCountExact ==
    cfg.incrementDismissCount /\ AllIdle => store.dismissCount = hist.dismissals

(***************************************************************************)
(* The Presentation Binding (VersionCheckProvider).  checkForUpdates is a  *)
(* useCallback closure over the React state isChecking: it tests the value *)
(* of the render that created it, and setIsChecking() reaches the callers  *)
(* only at the next render.                                                *)
(***************************************************************************)
JustSettled == res.op = "shouldShowUpdatePrompt"

\* checkForUpdates(), called by the mount effect, a foreground / visibility /
\* interval hook or a button:
\* if (isChecking) return; setIsChecking(true); ... shouldShowUpdatePrompt()
B_CheckForUpdates(p) ==
    /\ ~JustSettled
    /\ pc[p] = "idle"
    /\ IF ui.captured
       THEN res' = NoRes /\ UNCHANGED <<ui, pc, loc, hist>>
       ELSE ui' = [ui EXCEPT !.isChecking = TRUE] /\ SSP_Begin(p)
    /\ UNCHANGED <<engineVars, lifecycleVars, fn>>

\* React renders: checkForUpdates is re-created over the current isChecking
B_Render ==
    /\ ~JustSettled
    /\ ui.captured # ui.isChecking
    /\ ui' = [ui EXCEPT !.captured = ui.isChecking]
    /\ res' = NoRes
    /\ UNCHANGED <<engineVars, lifecycleVars, pc, loc, hist, fn>>

\* Faulty variant: no finally - setIsChecking(false) only after a result
B_Finish_NoFinally ==
    /\ JustSettled
    /\ ui' = [ui EXCEPT !.isChecking = res.outcome # "resolved",
                        !.versionInfo =
                            IF res.outcome = "resolved" THEN res.versionInfo ELSE @,
                        !.showUpdateDialog =
                            @ \/ (res.outcome = "resolved" /\ res.shouldShowPrompt)]
    /\ res' = NoRes
    /\ UNCHANGED <<engineVars, lifecycleVars, pc, loc, hist, fn>>

\* The awaited shouldShowUpdatePrompt() has settled: setVersionInfo(info);
\* setShowUpdateDialog(true) if (result.shouldShowPrompt); finally
\* setIsChecking(false)
B_Finish ==
    /\ JustSettled
    /\ ui' = [ui EXCEPT !.isChecking = FALSE,
                        !.versionInfo =
                            IF res.outcome = "resolved" THEN res.versionInfo ELSE @,
                        !.showUpdateDialog =
                            @ \/ (res.outcome = "resolved" /\ res.shouldShowPrompt)]
    /\ res' = NoRes
    /\ UNCHANGED <<engineVars, lifecycleVars, pc, loc, hist, fn>>

\* A mounted provider over a fresh engine on ios, an update available
BindingInit == OverlapInit

BindingStep(p) ==
    \/ SSP_VersionInfo(p)
    \/ SSP_RemindLater(p)
    \/ SSP_LastCheck(p)
    \/ SSP_LastShown(p)
    \/ SSP_SetLastCheck(p)
    \/ SSP_SetLastShown(p)
    \/ SSP_Catch(p)

BindingNext ==
    \/ B_Finish
    \/ B_Render
    \/ \E p \in Procs : B_CheckForUpdates(p)
    \/ \E p \in Procs : ~JustSettled /\ BindingStep(p)
    \/ ~JustSettled /\ AllIdle /\ Tick

BindingSpec == BindingInit /\ [][BindingNext]_vars

\* C17: while one checkForUpdates() of the binding is in flight, a further
\* checkForUpdates() from its UI layer returns without calling
\* shouldShowUpdatePrompt(): at most one evaluation is in flight at any time.
C17_OneEvaluationInFlight ==
    Cardinality({p \in Procs : pc[p] # "idle"}) <= 1

(***************************************************************************)
(* Lifecycle properties.  res.wasInitialized and res.life0 are the flag    *)
(* and the lifecycle history the settled call found at its start.          *)
(***************************************************************************)
IsInitialize == res.op = "initialize"
IsDispose == res.op = "dispose"

\* The initialize hooks the providers have
InitializeHooks ==
    (IF hooks.dataInitialize THEN {"dataProvider.initialize"} ELSE {})
      \cup (IF hooks.storeInitialize THEN {"storageProvider.initialize"} ELSE {})

\* The dispose hooks the providers have
DisposeHooks ==
    (IF hooks.dataDispose THEN {"dataProvider.dispose"} ELSE {})
      \cup (IF hooks.storeDispose THEN {"storageProvider.dispose"} ELSE {})

\* C12: once an initialize() call has resolved, any further initialize() call
\* (no dispose() in between) invokes neither provider's initialize hook and
\* resolves, leaving the engine initialized.
C12_InitializeNoOpAfterSuccess ==
    IsInitialize /\ res.life0.initResolved =>
        /\ res.calls = {}
        /\ Resolved
        /\ initialized

\* A second initialize() on providers that both have the hook
C12_Witness ==
    /\ IsInitialize /\ res.life0.initResolved
    /\ hooks.dataInitialize /\ hooks.storeInitialize
    /\ res.life0.dataInits = 1 /\ res.life0.storeInits = 1
    /\ Resolved /\ res.calls = {}

\* C13: for any two initialize() calls with no dispose() between them, whether
\* the second starts after the first has resolved or while the first is still
\* awaiting a hook, each provider's initialize hook is invoked exactly once.
C13_HooksRunOnce ==
    life.threw = "none" =>
        /\ life.dataInits <= 1
        /\ life.storeInits <= 1
        /\ IsInitialize /\ Resolved =>
              /\ hooks.dataInitialize => life.dataInits = 1
              /\ hooks.storeInitialize => life.storeInits = 1

\* C14: if a provider's initialize hook throws, initialize() rejects with that
\* error, does not invoke the remaining hook and leaves the flag false, so a
\* later initialize() runs the hooks again; if a provider's dispose hook throws,
\* dispose() rejects with that error.
C14_LifecycleErrorsPropagate ==
    /\ IsInitialize \/ IsDispose =>
          /\ Rejected <=> res.failed
          /\ Rejected => res.error \in res.calls
    /\ IsInitialize /\ Rejected =>
          /\ res.error \in InitializeHooks
          /\ res.error = "dataProvider.initialize" =>
                 "storageProvider.initialize" \notin res.calls
          /\ ~initialized
    /\ IsInitialize /\ res.life0.threw = "initialize" /\ ~res.life0.initResolved =>
          /\ ~res.wasInitialized
          /\ hooks.dataInitialize => "dataProvider.initialize" \in res.calls
          /\ Resolved => res.calls = InitializeHooks
    /\ IsDispose /\ Rejected => res.error \in DisposeHooks

\* The Data Source's hook throws and the store has a hook too
C14_Witness ==
    /\ IsInitialize /\ Rejected
    /\ res.error = "dataProvider.initialize"
    /\ hooks.storeInitialize
    /\ res.life0.threw = "initialize"
    /\ ~initialized

\* C15: with teardown hooks that do not throw, dispose() resolves in any
\* lifecycle state (never initialized, initialized, already disposed), calls the
\* teardown hook of both providers where present and leaves the flag false, so
\* the next initialize() invokes the providers' initialize hooks again.
C15_DisposeSafe ==
    /\ IsDispose /\ Healthy =>
          /\ Resolved
          /\ res.calls = DisposeHooks
          /\ ~initialized
    /\ IsInitialize /\ res.life0.disposed =>
          /\ ~res.wasInitialized
          /\ hooks.dataInitialize => "dataProvider.initialize" \in res.calls
          /\ Resolved => res.calls = InitializeHooks

\* dispose() on an engine that was already disposed, both teardown hooks present
C15_Witness ==
    /\ IsDispose /\ Resolved /\ res.life0.disposed /\ ~res.wasInitialized
    /\ res.calls = {"dataProvider.dispose", "storageProvider.dispose"}
    /\ ~initialized

(***************************************************************************)
(* The platform of one evaluation.                                         *)
(***************************************************************************)
\* C21: the platform is fixed for one evaluation: in every
\* shouldShowUpdatePrompt() result versionInfo.platform is the platform the
\* decision was taken on, a 'web_platform' result has versionInfo.platform =
\* 'web', and a prompt is never shown with versionInfo.platform = 'web' when
\* skipWebPlatform is set - also for a detector whose answer changes.
C21_PlatformFixedPerEvaluation ==
    IsSSP /\ Resolved =>
        /\ res.versionInfo.platform = res.platform
        /\ res.skipReason = "web_platform" => res.versionInfo.platform = "web"
        /\ res.shouldShowPrompt /\ cfg.skipWebPlatform =>
               res.versionInfo.platform # "web"

(***************************************************************************)
(* Platform detection: the constructor's options.getPlatform default and   *)
(* detectPlatform().  A user-agent string is the set of the words it       *)
(* contains.                                                               *)
(***************************************************************************)
UserAgentWords == {"Mozilla", "Android", "android", "iPhone", "iPad", "iPod", "iphone"}

\* A regular expression with the i flag compares the folded characters
Lower(w) ==
    CASE w = "Android" -> "android"
      [] w = "iPhone" -> "iphone"
      [] w = "iPad" -> "ipad"
      [] w = "iPod" -> "ipod"
      [] w = "Mozilla" -> "mozilla"
      [] OTHER -> w

\* /android/i.test(userAgent)
TestAndroid(userAgent) == \E w \in userAgent : Lower(w) = "android"

\* /iPad|iPhone|iPod/.test(userAgent)
TestIos(userAgent) == \E w \in userAgent : w \in {"iPad", "iPhone", "iPod"}

\* What a VersionChecker is constructed in: the options.getPlatform detector's
\* answer and the Data Source's getCurrentPlatform() answer ("none": not
\* supplied), whether window is defined, and window.navigator?.userAgent || ''
PlatformEnvs ==
    [detector : Platforms \cup {"none"},
     accessor : Platforms \cup {"none"},
     hasWindow : BOOLEAN,
     userAgent : SUBSET UserAgentWords]

detectPlatform(env) ==
    IF env.accessor # "none" THEN env.accessor
    ELSE IF env.hasWindow
         THEN IF TestAndroid(env.userAgent) THEN "android"
              ELSE IF TestIos(env.userAgent) THEN "ios"
              ELSE "web"
         ELSE "web"

\* Faulty variant: the injected detector is ignored
getPlatform_DetectOnly(env) == detectPlatform(env)

\* getPlatform() { return this.options.getPlatform(); } with
\* getPlatform: options.getPlatform ?? (() => this.detectPlatform())
getPlatform(env) ==
    IF env.detector # "none" THEN env.detector ELSE detectPlatform(env)

\* The engine itself is at rest while a helper is evaluated
EngineAtRest ==
    /\ clock = StartTime
    /\ platform = "ios"
    /\ latestVersion = NoVersion
    /\ mandatory = FALSE
    /\ cfg = Config(TRUE, TRUE, FALSE, TRUE, TRUE)
    /\ store = EmptyStore
    /\ pc = [p \in Procs |-> "idle"]
    /\ loc = [p \in Procs |-> IdleLoc]
    /\ res = NoRes
    /\ hist = NoHist
    /\ ui = NoUi
    /\ initialized = FALSE
    /\ hooks = NoHooks
    /\ life = NoLife

engineState == <<engineVars, lifecycleVars, ui, pc, loc, res, hist>>

\* A helper is called with arguments args
CallOf(name, args) ==
    [name |-> name, args |-> args, returned |-> FALSE, result |-> << >>]

\* The helper under evaluation returns r
Returns(r) ==
    /\ ~fn.returned
    /\ fn' = [fn EXCEPT !.returned = TRUE, !.result = r]
    /\ UNCHANGED engineState

PlatformInit ==
    /\ EngineAtRest
    /\ \E env \in PlatformEnvs :
         /\ ~env.hasWindow => env.userAgent = {}
         /\ fn = CallOf("getPlatform", env)

GetPlatform ==
    /\ fn.name = "getPlatform"
    /\ Returns(getPlatform(fn.args))

PlatformNext == GetPlatform

PlatformSpec == PlatformInit /\ [][PlatformNext]_vars

OptionsProps == {"omitted", "inline", "stable"}

\* Object.is on each dependency of [dataProvider, storageProvider, options]
SameDeps(deps, memoDeps) ==
    /\ memoDeps # << >>
    /\ \A i \in 1..3 : deps[i] = memoDeps[i]

\* useMemo(() => new VersionChecker(...), [dataProvider, storageProvider, options])
MemoDeps(props) == <<props.dataProvider, props.storageProvider, props.options>>

\* The component function runs: the props of this render, then useMemo
R_Render(optionsProp, newProviders) ==
    LET m == ui.mount
        fresh == m.nextObject
        optionsObject == IF optionsProp = "stable" THEN 0 ELSE fresh
        providerObject == IF newProviders THEN fresh + 1 ELSE m.props.dataProvider
        props == [dataProvider |-> providerObject,
                  storageProvider |-> providerObject,
                  options |-> optionsObject]
        deps == MemoDeps(props)
        keep == SameDeps(deps, m.memoDeps)
    IN  /\ m.renders < MaxRenders
        /\ m.effectEngine = m.engine
        /\ newProviders => m.renders > 0
        /\ ui' = [ui EXCEPT !.mount =
                    [m EXCEPT !.props = props,
                              !.optionsProp = optionsProp,
                              !.memoDeps = deps,
                              !.engine = IF keep THEN @ ELSE @ + 1,
                              !.constructed = IF keep THEN @ ELSE @ + 1,
                              !.renders = @ + 1,
                              !.providerChanges = IF newProviders THEN @ + 1 ELSE @,
                              !.nextObject = fresh + 2]]
        /\ UNCHANGED <<engineVars, lifecycleVars, pc, loc, res, hist, fn>>

\* useEffect(() => { versionChecker.initialize()...; return () => {
\* versionChecker.dispose()... } }, [versionChecker]) after the commit
R_Effect ==
    LET m == ui.mount
    IN  /\ m.effectEngine # m.engine
        /\ ui' = [ui EXCEPT !.mount =
                    [m EXCEPT !.disposeCalls = IF m.effectEngine # 0 THEN @ + 1 ELSE @,
                              !.initializeCalls = @ + 1,
                              !.effectEngine = m.engine]]
        /\ UNCHANGED <<engineVars, lifecycleVars, pc, loc, res, hist, fn>>

RenderInit == EngineAtRest /\ fn = NoCall

RenderNext ==
    \/ \E o \in OptionsProps, n \in BOOLEAN : R_Render(o, n)
    \/ R_Effect

RenderSpec == RenderInit /\ [][RenderNext]_vars

\* C23: a mounted VersionCheckProvider uses a single VersionChecker for as long
\* as its dataProvider and storageProvider props keep the same identity:
\* re-renders - also with the options prop omitted or passed as an inline
\* object literal - neither construct a new engine nor trigger dispose() /
\* initialize() on the providers.
C23_OneEnginePerProviders ==
    LET m == ui.mount
    IN  m.renders > 0 =>
            /\ m.constructed = 1 + m.providerChanges
            /\ m.initializeCalls <= 1 + m.providerChanges
            /\ m.disposeCalls <= m.providerChanges

(***************************************************************************)
(* Errors of the Preference Store.                                         *)
(***************************************************************************)
\* C24: if a Preference Store call throws during shouldShowUpdatePrompt() while
\* the Data Source is healthy, the call resolves to shouldShowPrompt:false with
\* skipReason 'error' and a freshly fetched versionInfo, and the failure is not
\* retried inside the call (every store operation was called once, none after
\* the one that threw).
C24_StoreErrorMeansNoPrompt ==
    IsSSP /\ res.thrown \cap StoreOps # {} /\ res.thrown \cap DataSourceOps = {} =>
        /\ Resolved
        /\ ~res.shouldShowPrompt
        /\ res.skipReason = "error"
        /\ res.versionInfo = VersionInfoOf(platform, latestVersion)
        /\ Cardinality(res.thrown) = 1
        /\ res.storeCalls = Cardinality(res.calls \cap StoreOps)

\* The last store write, setLastShownVersion, threw on an update that passed
\* every throttle; the detector answered anew in the catch block
C24_Witness ==
    /\ IsSSP /\ Resolved
    /\ res.thrown = {"setLastShownVersion"}
    /\ res.skipReason = "error"
    /\ res.versionInfo.updateAvailable
    /\ res.versionInfo.platform # res.platform

(***************************************************************************)
(* The Version Comparator on its own: compareVersions and isUpdateAvailable *)
(* applied to pairs of version strings.                                    *)
(***************************************************************************)
\* The segments "0", "9", "10" and a non-numeric "x"
NumericSegments == {<<0>>, <<9>>, <<1, 0>>}
SegmentTexts == NumericSegments \cup {<<Letter>>}

\* The versions named by the documentation and the tests: "1.0", "1.0.0",
\* "1.0.0.1", "1.0.9", "1.0.10", "1.0.49", "1.0.439", "1.0.1", "1.1.0",
\* "2.0.0", "1.9.9", "1.2.3"
V_1_0 == << <<1>>, <<0>> >>
V_1_0_0 == << <<1>>, <<0>>, <<0>> >>
V_1_0_0_1 == << <<1>>, <<0>>, <<0>>, <<1>> >>
V_1_0_9 == << <<1>>, <<0>>, <<9>> >>
V_1_0_10 == << <<1>>, <<0>>, <<1, 0>> >>
V_1_0_49 == << <<1>>, <<0>>, <<4, 9>> >>
V_1_0_439 == << <<1>>, <<0>>, <<4, 3, 9>> >>
DocumentedVersions ==
    {V_1_0, V_1_0_0, V_1_0_0_1, V_1_0_9, V_1_0_10, V_1_0_49, V_1_0_439,
     << <<1>>, <<0>>, <<1>> >>, << <<1>>, <<1>>, <<0>> >>,
     << <<2>>, <<0>>, <<0>> >>, << <<1>>, <<9>>, <<9>> >>,
     << <<1>>, <<2>>, <<3>> >>}

\* Every dotted string of up to MaxSegments of the segments, and the
\* documented versions
VersionStrings ==
    UNION {[1..n -> SegmentTexts] : n \in 1..MaxSegments} \cup DocumentedVersions

\* Every segment is a non-empty string of decimal digits
IsNumeric(v) ==
    \A i \in 1..Len(v) : v[i] # << >> /\ \A k \in 1..Len(v[i]) : v[i][k] \in Digit

CompareInit ==
    /\ EngineAtRest
    /\ \E a \in VersionStrings, b \in VersionStrings :
         fn = CallOf("compareVersions", <<a, b>>)

\* compareVersions(a, b) is called and returns
CompareVersions ==
    /\ fn.name = "compareVersions"
    /\ Returns(compareVersions(fn.args[1], fn.args[2]))

\* isUpdateAvailable(a, b) is called on the same pair and returns
IsUpdateAvailable ==
    /\ fn.name = "compareVersions" /\ fn.returned
    /\ fn' = [CallOf("isUpdateAvailable", fn.args)
                EXCEPT !.returned = TRUE,
                       !.result = isUpdateAvailable(fn.args[1], fn.args[2])]
    /\ UNCHANGED engineState

CompareNext == CompareVersions \/ IsUpdateAvailable

CompareSpec == CompareInit /\ [][CompareNext]_vars

Compared == fn.name = "compareVersions" /\ fn.returned

\* C25: compareVersions is antisymmetric and reflexive on dotted numeric
\* strings of any lengths: compareVersions(a, b) = -compareVersions(b, a) and
\* compareVersions(a, a) = 0.
C25_AntisymmetricReflexive ==
    Compared /\ IsNumeric(fn.args[1]) /\ IsNumeric(fn.args[2]) =>
        /\ fn.result = 0 - compareVersions(fn.args[2], fn.args[1])
        /\ fn.args[1] = fn.args[2] => fn.result = 0

\* Two numeric versions of different lengths that differ: "1.0.0" against
\* "1.0.0.1"
C25_Witness ==
    /\ Compared
    /\ fn.args = <<V_1_0_0, V_1_0_0_1>>
    /\ fn.result = 0 - 1
    /\ compareVersions(V_1_0_0_1, V_1_0_0) = 1

\* The first segment at which the integer values of a and b differ, the
\* shorter one padded with zeros (0: they differ nowhere)
FirstDifference(a, b) ==
    LET n == Max(Len(a), Len(b))
        D == {i \in 1..n : SegmentValue(a, i) # SegmentValue(b, i)}
    IN  IF D = {} THEN 0 ELSE CHOOSE i \in D : \A j \in D : i <= j

\* C26: on dotted numeric strings compareVersions(a, b) is exactly -1, 0 or 1:
\* the sign of the difference at the first segment where the integer values
\* differ after zero padding, 0 when none differs; segments compare
\* numerically, not lexically (1.0.10 > 1.0.9, 1.0.439 > 1.0.49), '1.0' equals
\* '1.0.0', and '1.0.0' is less than '1.0.0.1'.
C26_SignOfFirstDifference ==
    /\ Compared /\ IsNumeric(fn.args[1]) /\ IsNumeric(fn.args[2]) =>
        LET a == fn.args[1]
            b == fn.args[2]
            i == FirstDifference(a, b)
        IN  /\ fn.result \in {0 - 1, 0, 1}
            /\ i = 0 => fn.result = 0
            /\ i # 0 /\ SegmentValue(a, i) < SegmentValue(b, i) => fn.result = 0 - 1
            /\ i # 0 /\ SegmentValue(a, i) > SegmentValue(b, i) => fn.result = 1
    /\ compareVersions(V_1_0_10, V_1_0_9) = 1
    /\ compareVersions(V_1_0_439, V_1_0_49) = 1
    /\ compareVersions(V_1_0, V_1_0_0) = 0
    /\ compareVersions(V_1_0_0, V_1_0_0_1) = 0 - 1

\* "1.0.439" against "1.0.49": greater numerically, smaller lexically
C26_Witness ==
    /\ Compared
    /\ fn.args = <<V_1_0_439, V_1_0_49>>
    /\ fn.result = 1

\* A segment is either a non-negative integer or non-numeric text
IsNumericSegment(d) == d # << >> /\ \A k \in 1..Len(d) : d[k] \in Digit
IsTextSegment(d) == d # << >> /\ d[1] \notin Digit
WellSegmented(v) ==
    \A i \in 1..Len(v) : IsNumericSegment(v[i]) \/ IsTextSegment(v[i])

\* v with every non-numeric segment replaced by "0"
ZeroMalformed(v) ==
    [i \in 1..Len(v) |-> IF IsNumericSegment(v[i]) THEN v[i] ELSE <<0>>]

\* C27: malformed version strings never raise and degrade by treating an
\* unparsable segment as zero: for all dotted strings a and b whose segments
\* are non-negative integers or non-numeric text, compareVersions(a, b)
\* returns and equals compareVersions(a0, b0), a0 and b0 being a and b with
\* every non-numeric segment replaced by 0.
C27_MalformedSegmentsAsZero ==
    Compared /\ WellSegmented(fn.args[1]) /\ WellSegmented(fn.args[2]) =>
        /\ fn.result \in {0 - 1, 0, 1}
        /\ fn.result = compareVersions(ZeroMalformed(fn.args[1]),
                                       ZeroMalformed(fn.args[2]))

\* The test harness's reference: /^\d+\.\d+\.\d+$/ on both versions
IsSemver(v) == Len(v) = 3 /\ IsNumeric(v)

\* for (let i = 0; i < 3; i++) { if (parts2[i] > parts1[i]) return true;
\* if (parts2[i] < parts1[i]) return false; } return false;
RECURSIVE NewerFrom(_, _, _)
NewerFrom(parts1, parts2, i) ==
    IF i > 3 THEN FALSE
    ELSE IF parts2[i] > parts1[i] THEN TRUE
    ELSE IF parts2[i] < parts1[i] THEN FALSE
    ELSE NewerFrom(parts1, parts2, i + 1)

\* version.split('.').map(Number) on a version the regular expression accepts
NumberParts(v) == [i \in 1..Len(v) |-> DigitsValue(v[i], 1, 0)]

isNewerVersion(version1, version2) ==
    IF ~IsSemver(version1) \/ ~IsSemver(version2) THEN FALSE
    ELSE NewerFrom(NumberParts(version1), NumberParts(version2), 1)

\* C28: isUpdateAvailable(current, latest) is true exactly when
\* compareVersions(current, latest) < 0, i.e. when latest is strictly greater:
\* false for equal versions and for an older latest.  On strict three-segment
\* versions it returns what the test harness's isNewerVersion(current, store)
\* returns.
C28_IsUpdateAvailable ==
    fn.name = "isUpdateAvailable" /\ fn.returned =>
        LET current == fn.args[1]
            latest == fn.args[2]
        IN  /\ fn.result <=> compareVersions(current, latest) < 0
            /\ IsNumeric(current) /\ IsNumeric(latest) =>
                   (fn.result <=> NumericallyGreater(latest, current))
            /\ IsSemver(current) /\ IsSemver(latest) =>
                   (fn.result <=> isNewerVersion(current, latest))

\* The patch downgrade of the test table: 1.0.10 -> 1.0.9 is no update
C28_Witness ==
    /\ fn.name = "isUpdateAvailable" /\ fn.returned
    /\ fn.args = <<V_1_0_10, V_1_0_9>>
    /\ ~fn.result
    /\ ~isNewerVersion(V_1_0_10, V_1_0_9)

(***************************************************************************)
(* The sorting helpers sortVersions and getLatestVersion.  The array the   *)
(* caller passes is part of the state: args.versions is its content now,   *)
(* args.given its content when the helper was called.                      *)
(***************************************************************************)
\* aParts[i] || 0: undefined (past the end), NaN and 0 give 0
PartOrZero(parts, i) ==
    IF i > Len(parts) \/ parts[i] = NaN THEN 0 ELSE parts[i]

\* The comparator's loop: the first difference of the parts decides
RECURSIVE SortCompareFrom(_, _, _, _, _)
SortCompareFrom(aParts, bParts, i, maxLength, descending) ==
    IF i > maxLength THEN 0
    ELSE LET aPart == PartOrZero(aParts, i)
             bPart == PartOrZero(bParts, i)
         IN  IF aPart # bPart
             THEN IF descending THEN bPart - aPart ELSE aPart - bPart
             ELSE SortCompareFrom(aParts, bParts, i + 1, maxLength, descending)

\* The comparator sortVersions passes to Array.prototype.sort
SortCompare(a, b, descending) ==
    SortCompareFrom(ParsedParts(a), ParsedParts(b), 1, Max(Len(a), Len(b)),
                    descending)

\* x put into the sorted list behind every element that does not sort after it
RECURSIVE InsertSorted(_, _, _)
InsertSorted(x, sorted, descending) ==
    IF sorted = << >> THEN <<x>>
    ELSE IF SortCompare(Head(sorted), x, descending) > 0 THEN <<x>> \o sorted
    ELSE <<Head(sorted)>> \o InsertSorted(x, Tail(sorted), descending)

\* Array.prototype.sort is stable: the elements are placed one after another
RECURSIVE SortFrom(_, _, _, _)
SortFrom(versions, i, sorted, descending) ==
    IF i > Len(versions) THEN sorted
    ELSE SortFrom(versions, i + 1, InsertSorted(versions[i], sorted, descending),
                  descending)

\* [...versions].sort((a, b) => ...)
sortVersions(versions, descending) == SortFrom(versions, 1, << >>, descending)

\* if (!versions || versions.length === 0) return null;
\* return sortVersions(versions, true)[0]
getLatestVersion(versions) ==
    IF versions = << >> THEN NoVersion ELSE sortVersions(versions, TRUE)[1]

\* The versions the lists are made of: "1.0" and "1.0.0" are equal, "1.0.9"
\* and "1.0.10" order differently as numbers and as text, "x.9" has a
\* non-numeric segment
V_x_9 == << <<Letter>>, <<9>> >>
ListedVersions == {V_1_0, V_1_0_0, V_1_0_0_1, V_1_0_9, V_1_0_10, V_x_9}

VersionLists == UNION {[1..n -> ListedVersions] : n \in 0..MaxList}

SortInit ==
    /\ EngineAtRest
    /\ \E list \in VersionLists, descending \in BOOLEAN :
         fn = CallOf("sortVersions",
                     [versions |-> list, given |-> list, descending |-> descending])

\* sortVersions(versions, descending) is called and returns
SortVersions ==
    /\ fn.name = "sortVersions"
    /\ Returns(sortVersions(fn.args.versions, fn.args.descending))

\* getLatestVersion(versions) is called on the same array and returns
GetLatestVersion ==
    /\ fn.name = "sortVersions" /\ fn.returned
    /\ fn' = [CallOf("getLatestVersion", fn.args)
                EXCEPT !.returned = TRUE,
                       !.result = getLatestVersion(fn.args.versions)]
    /\ UNCHANGED engineState

SortNext == SortVersions \/ GetLatestVersion

SortSpec == SortInit /\ [][SortNext]_vars

\* How often v occurs in list
Occurrences(v, list) == Cardinality({i \in 1..Len(list) : list[i] = v})

\* C29: the sorting helpers order versions exactly as compareVersions does:
\* sortVersions(list, true) is a permutation of list in which
\* compareVersions(out[i], out[i+1]) >= 0 for every adjacent pair (<= 0 when
\* descending is false); getLatestVersion(list) is an element v of list with
\* compareVersions(v, w) >= 0 for every w in list (null for an empty list);
\* and the input array is left unmodified.
C29_SortingFollowsCompareVersions ==
    /\ fn.name = "sortVersions" /\ fn.returned =>
        LET out == fn.result
        IN  /\ Len(out) = Len(fn.args.given)
            /\ \A v \in ListedVersions :
                   Occurrences(v, out) = Occurrences(v, fn.args.given)
            /\ \A i \in 1..(Len(out) - 1) :
                   IF fn.args.descending
                   THEN compareVersions(out[i], out[i + 1]) >= 0
                   ELSE compareVersions(out[i], out[i + 1]) <= 0
            /\ fn.args.versions = fn.args.given
    /\ fn.name = "getLatestVersion" /\ fn.returned =>
        LET list == fn.args.given
        IN  /\ list = << >> => fn.result = NoVersion
            /\ list # << >> =>
                   /\ \E i \in 1..Len(list) : list[i] = fn.result
                   /\ \A i \in 1..Len(list) : compareVersions(fn.result, list[i]) >= 0
            /\ fn.args.versions = fn.args.given

(***************************************************************************)
(* The Store-URL Resolver on its own.                                      *)
(***************************************************************************)
\* App Store IDs: none, a well-formed one, one too short and one that is no
\* number (isValidIosAppStoreId rejects the last two)
IosAppStoreIds == {"", "123456789", "12345", "not-an-id"}
\* Package names: none, a well-formed one, one without a dot and one that
\* starts with a digit (isValidAndroidPackageName rejects the last two)
AndroidPackageNames == {"", "com.example.app", "example", "1com.example"}
\* Override URLs: none or one
IosStoreUrls == {"", "https://example.com/ios"}
AndroidStoreUrls == {"", "https://example.com/android"}

AppStoreConfigs ==
    [iosAppStoreId : IosAppStoreIds, androidPackageName : AndroidPackageNames,
     iosStoreUrl : IosStoreUrls, androidStoreUrl : AndroidStoreUrls]

StoreUrlInit ==
    /\ EngineAtRest
    /\ \E pf \in Platforms, config \in AppStoreConfigs :
         fn = CallOf("getStoreUrl", [platform |-> pf, config |-> config])

\* getStoreUrl(platform, config) is called and returns
GetStoreUrl ==
    /\ fn.name = "getStoreUrl"
    /\ Returns(getStoreUrl(fn.args.platform, fn.args.config))

StoreUrlNext == GetStoreUrl

StoreUrlSpec == StoreUrlInit /\ [][StoreUrlNext]_vars

\* C30: getStoreUrl(platform, config) is null for 'web'; for 'ios' it is
\* config.iosStoreUrl when set, else 'https://apps.apple.com/app/id' followed
\* by iosAppStoreId when that is set, else null; for 'android' it is
\* config.androidStoreUrl when set, else
\* 'https://play.google.com/store/apps/details?id=' followed by
\* androidPackageName when that is set, else null.  Identifiers are not
\* validated: a malformed id or package name still yields a URL.
C30_StoreUrl ==
    fn.name = "getStoreUrl" /\ fn.returned =>
        LET pf == fn.args.platform
            c == fn.args.config
            url == fn.result
        IN  /\ pf = "web" => url = NoUrl
            /\ pf = "ios" /\ c.iosStoreUrl # "" => url = <<c.iosStoreUrl>>
            /\ pf = "ios" /\ c.iosStoreUrl = "" /\ c.iosAppStoreId # "" =>
                   url = <<"https://apps.apple.com/app/id", c.iosAppStoreId>>
            /\ pf = "ios" /\ c.iosStoreUrl = "" /\ c.iosAppStoreId = "" => url = NoUrl
            /\ pf = "android" /\ c.androidStoreUrl # "" => url = <<c.androidStoreUrl>>
            /\ pf = "android" /\ c.androidStoreUrl = "" /\ c.androidPackageName # "" =>
                   url = <<"https://play.google.com/store/apps/details?id=",
                           c.androidPackageName>>
            /\ pf = "android" /\ c.androidStoreUrl = "" /\ c.androidPackageName = "" =>
                   url = NoUrl

\* No override URL and an App Store ID that is no number: a URL all the same
C30_Witness ==
    /\ fn.name = "getStoreUrl" /\ fn.returned
    /\ fn.args.platform = "ios"
    /\ fn.args.config.iosStoreUrl = ""
    /\ fn.args.config.iosAppStoreId = "not-an-id"
    /\ fn.result = <<"https://apps.apple.com/app/id", "not-an-id">>

(***************************************************************************)
(* What an evaluation writes to the Preference Store.                      *)
(***************************************************************************)
\* C31: whenever shouldShowUpdatePrompt() returns shouldShowPrompt:true, by the
\* time it resolves the store's lastCheckTime is the clock value of that
\* evaluation and, if the store supports setLastShownVersion, the last shown
\* version equals versionInfo.latestVersion; lastCheckTime is written first,
\* and the last-shown write only happens after it succeeded.
C31_PromptIsRecorded ==
    IsSSP =>
        /\ Resolved /\ res.shouldShowPrompt =>
              /\ store.lastCheckTime = res.tEval
              /\ res.t0 <= res.tEval /\ res.tEval <= res.t
              /\ "setLastCheckTime" \in res.calls
              /\ cfg.setLastShownVersion =>
                    /\ store.lastShownVersion = res.versionInfo.latestVersion
                    /\ "setLastShownVersion" \in res.calls
        /\ "setLastShownVersion" \in res.calls =>
              /\ "setLastCheckTime" \in res.calls \ res.thrown
              /\ store.lastCheckTime = res.tEval

\* A prompt on a store that records the shown version, time having passed
\* since the call started and the store holding older values
C31_Witness ==
    /\ IsSSP /\ Resolved /\ res.shouldShowPrompt
    /\ cfg.setLastShownVersion
    /\ res.t0 < res.tEval
    /\ Truthy(res.pre.lastCheckTime) /\ res.pre.lastCheckTime < store.lastCheckTime
    /\ res.pre.lastShownVersion # NoVersion
    /\ res.pre.lastShownVersion # store.lastShownVersion

\* C32: a shouldShowUpdatePrompt() call that returns shouldShowPrompt:false -
\* for any skipReason, 'error' included - leaves the Preference Store
\* unchanged.
C32_NoPromptNoWrite ==
    IsSSP /\ Resolved /\ ~res.shouldShowPrompt => store = res.pre

\* C33: resetVersionCheckData() removes every throttle: after it completes,
\* the next shouldShowUpdatePrompt() on a non-web platform with an update
\* available returns shouldShowPrompt:true, whatever remind-later time, last
\* check time or last shown version was stored before - for any Preference
\* Store, with or without the optional clearAll.
C33_ResetRemovesEveryThrottle ==
    /\ IsSSP /\ res.hist0.reset
    /\ res.platform # "web" /\ Healthy /\ Resolved
    /\ res.versionInfo.updateAvailable
    => res.shouldShowPrompt

(***************************************************************************)
(* The lifecycle under interleaving.                                       *)
(***************************************************************************)
\* C34: for any interleaving of initialize() and dispose() calls on one
\* engine, once all of them have settled, if the initialized flag is true then
\* neither provider's dispose hook has run after that provider's most recent
\* initialize hook.
C34_NeverInitializedOverDisposed ==
    AllIdle /\ initialized =>
        /\ hooks.dataInitialize => life.dataLast # "dispose"
        /\ hooks.storeInitialize => life.storeLast # "dispose"

(***************************************************************************)
(* The standalone hook (useStandaloneVersionChecker).  Its checkForUpdates *)
(* closes over isChecking as the provider's does; showUpdatePrompt is its  *)
(* dialog state.                                                           *)
(***************************************************************************)
HookSettled == res.op \in {"shouldShowUpdatePrompt", "setRemindMeLater"}

\* if (!versionCheckerRef.current || isChecking) return; setIsChecking(true);
\* ... await versionCheckerRef.current.shouldShowUpdatePrompt()
S_CheckForUpdates(p) ==
    /\ ~HookSettled
    /\ pc[p] = "idle"
    /\ IF ui.captured
       THEN res' = NoRes /\ UNCHANGED <<ui, pc, loc, hist>>
       ELSE ui' = [ui EXCEPT !.isChecking = TRUE] /\ SSP_Begin(p)
    /\ UNCHANGED <<engineVars, lifecycleVars, fn>>

\* React renders: checkForUpdates is re-created over the current isChecking
S_Render ==
    /\ ~HookSettled
    /\ ui.captured # ui.isChecking
    /\ ui' = [ui EXCEPT !.captured = ui.isChecking]
    /\ res' = NoRes
    /\ UNCHANGED <<engineVars, lifecycleVars, pc, loc, hist, fn>>

\* setVersionInfo(result.versionInfo);
\* setShowUpdatePrompt(result.shouldShowPrompt); finally setIsChecking(false)
S_Finish ==
    /\ res.op = "shouldShowUpdatePrompt"
    /\ ui' = [ui EXCEPT !.isChecking = FALSE,
                        !.versionInfo =
                            IF res.outcome = "resolved" THEN res.versionInfo ELSE @,
                        !.showUpdatePrompt =
                            IF res.outcome = "resolved" THEN res.shouldShowPrompt ELSE @]
    /\ res' = NoRes
    /\ UNCHANGED <<engineVars, lifecycleVars, pc, loc, hist, fn>>

\* The user answers the visible prompt with "remind later":
\* await versionCheckerRef.current.setRemindMeLater();
S_SetRemindMeLater(p) ==
    /\ ~HookSettled
    /\ ui.showUpdatePrompt
    /\ RML_Start(p)

\* setShowUpdatePrompt(false), reached when setRemindMeLater() resolved
S_RemindDone ==
    /\ res.op = "setRemindMeLater"
    /\ ui' = [ui EXCEPT !.showUpdatePrompt =
                            IF res.outcome = "resolved" THEN FALSE ELSE @]
    /\ res' = NoRes
    /\ UNCHANGED <<engineVars, lifecycleVars, pc, loc, hist, fn>>

StandaloneInit == OverlapInit

StandaloneStep(p) ==
    \/ BindingStep(p)
    \/ RML_SetRemindLater(p)
    \/ RML_IncrementRead(p)
    \/ RML_IncrementWrite(p)

StandaloneNext ==
    \/ S_Finish
    \/ S_RemindDone
    \/ S_Render
    \/ \E p \in Procs : S_CheckForUpdates(p)
    \/ \E p \in Procs : S_SetRemindMeLater(p)
    \/ \E p \in Procs : ~HookSettled /\ StandaloneStep(p)
    \/ ~HookSettled /\ AllIdle /\ Tick

StandaloneSpec == StandaloneInit /\ [][StandaloneNext]_vars

\* C35: once a check has made the dialog visible (showUpdateDialog in
\* VersionCheckProvider, showUpdatePrompt in useStandaloneVersionChecker), a
\* later check that settles, whatever it returns, does not hide it; only the
\* update-now handler, the remind-later handler or a reset does.
C35_DialogStaysUntilAnswered ==
    [][res.op = "shouldShowUpdatePrompt" =>
          /\ ui.showUpdateDialog => ui'.showUpdateDialog
          /\ ui.showUpdatePrompt => ui'.showUpdatePrompt]_vars

(***************************************************************************)
(* The shape of a result.                                                  *)
(***************************************************************************)
SkipReasons == {"no_update", "web_platform", "remind_later", "too_soon", "error"}

\* C36: every result of shouldShowUpdatePrompt() is well-formed: skipReason is
\* absent exactly when shouldShowPrompt is true and is one of no_update,
\* web_platform, remind_later, too_soon, error otherwise; versionInfo is always
\* present; and shouldShowPrompt:true implies versionInfo.updateAvailable is
\* true and versionInfo.latestVersion is non-null.
C36_ResultWellFormed ==
    IsSSP /\ Resolved =>
        /\ res.skipReason = "none" <=> res.shouldShowPrompt
        /\ ~res.shouldShowPrompt => res.skipReason \in SkipReasons
        /\ res.versionInfo # NoVersionInfo
        /\ res.versionInfo.currentVersion = CurrentVersion
        /\ res.shouldShowPrompt =>
             /\ res.versionInfo.updateAvailable
             /\ res.versionInfo.latestVersion # NoVersion

\* A prompt for a known newer version, shown by a call that found a throttled
\* store: the mandatory update overrides the version already shown
C36_Witness ==
    /\ IsSSP /\ Resolved /\ res.shouldShowPrompt
    /\ res.skipReason = "none"
    /\ res.versionInfo.updateAvailable
    /\ res.versionInfo.latestVersion = res.pre.lastShownVersion

(***************************************************************************)
(* The two views of update availability: the engine's isUpdateAvailable()  *)
(* and the versionInfo.updateAvailable of the last check, which the        *)
(* binding keeps in its versionInfo state and exposes as isUpdateAvailable.*)
(* The Data Source's answers are fixed at the start.                       *)
(***************************************************************************)
\* isUpdateAvailable: versionInfo?.updateAvailable || false
ContextIsUpdateAvailable ==
    IF ui.versionInfo = NoVersionInfo THEN FALSE ELSE ui.versionInfo.updateAvailable

AvailabilityInit ==
    /\ clock = StartTime
    /\ platform \in Platforms
    /\ latestVersion \in LatestVersions
    /\ cfg \in {Config(skipWeb, TRUE, FALSE, TRUE, TRUE) : skipWeb \in BOOLEAN}
    /\ mandatory = FALSE
    /\ store = EmptyStore
    /\ pc = [p \in Procs |-> "idle"]
    /\ loc = [p \in Procs |-> IdleLoc]
    /\ res = NoRes
    /\ hist = NoHist
    /\ ui = NoUi
    /\ fn = NoCall
    /\ initialized = FALSE
    /\ hooks = NoHooks
    /\ life = NoLife

AvailabilityStep(p) ==
    \/ SSP_Web(p)
    \/ BindingStep(p)
    \/ IUA_VersionInfo(p)

AvailabilityNext ==
    \/ B_Finish
    \/ B_Render
    \/ \E p \in Procs : B_CheckForUpdates(p)
    \/ \E p \in Procs : ~JustSettled /\ AllIdle /\ IUA_Start(p)
    \/ \E p \in Procs : ~JustSettled /\ AvailabilityStep(p)
    \/ ~JustSettled /\ AllIdle /\ Tick

AvailabilitySpec == AvailabilityInit /\ [][AvailabilityNext]_vars

\* C37: for the same engine and unchanged Data Source answers,
\* isUpdateAvailable() returns the same boolean as the
\* versionInfo.updateAvailable attached to the result of
\* shouldShowUpdatePrompt(), which the binding exposes as its
\* isUpdateAvailable, on every platform, 'web' with skipWebPlatform included.
C37_AvailabilityViewsAgree ==
    /\ res.op = "isUpdateAvailable" /\ Resolved
    /\ ui.versionInfo # NoVersionInfo
    => res.bool = ContextIsUpdateAvailable

(***************************************************************************)
(* The built-in Preference Stores.  In this specification store holds the  *)
(* backend of each of the three (the Map of InMemoryStorageProvider, the   *)
(* string items of localStorage and of the AsyncStorage), hist the values  *)
(* last written through the interface, and fn the last operation with the *)
(* answer of each store.  The same operation is applied to the three.      *)
(***************************************************************************)
BuiltInStores ==
    {"InMemoryStorageProvider", "LocalStorageProvider", "AsyncStorageProvider"}

\* getItem() of a key that is not there: null, falsy like the empty string
NoItem == << >>

\* timestamp.toString(): the decimal digits of a non-negative integer
RECURSIVE NumberToString(_)
NumberToString(n) ==
    IF n < 10 THEN <<n>> ELSE Append(NumberToString(n \div 10), n % 10)

\* new Map() / no item under the prefix
EmptyBackend(s) ==
    IF s = "InMemoryStorageProvider"
    THEN [lastCheckTime |-> Null, remindLaterTime |-> Null]
    ELSE [lastCheckTime |-> NoItem, remindLaterTime |-> NoItem]

\* this.storage.set(key, timestamp) / setItem(getKey(key), timestamp.toString())
BackendSet(s, backend, key, t) ==
    IF s = "InMemoryStorageProvider"
    THEN [backend EXCEPT ![key] = t]
    ELSE [backend EXCEPT ![key] = NumberToString(t)]

\* this.storage.delete(key) / removeItem(getKey(key))
BackendRemove(s, backend, key) ==
    IF s = "InMemoryStorageProvider"
    THEN [backend EXCEPT ![key] = Null]
    ELSE [backend EXCEPT ![key] = NoItem]

\* return this.storage.get(key) || null
\* const value = getItem(getKey(key)); return value ? parseInt(value, 10) : null
BackendGet(s, backend, key) ==
    IF s = "InMemoryStorageProvider"
    THEN IF Truthy(backend[key]) THEN backend[key] ELSE Null
    ELSE IF backend[key] # NoItem THEN parseInt(backend[key]) ELSE Null

NothingWritten == [lastCheckTime |-> Null, remindLaterTime |-> Null]

StoreOp(name, args, result) ==
    [name |-> name, args |-> args, returned |-> TRUE, result |-> result]

StoreUnchanged ==
    UNCHANGED <<clock, platform, latestVersion, mandatory, cfg, pc, loc, res, ui,
                lifecycleVars>>

ST_Set(name, key) ==
    \E t \in 0..MaxTime :
        /\ store' = [s \in BuiltInStores |-> BackendSet(s, store[s], key, t)]
        /\ hist' = [hist EXCEPT ![key] = t]
        /\ fn' = StoreOp(name, <<t>>, [s \in BuiltInStores |-> Null])
        /\ StoreUnchanged

ST_Get(name, key) ==
    /\ fn' = StoreOp(name, << >>,
                     [s \in BuiltInStores |-> BackendGet(s, store[s], key)])
    /\ UNCHANGED <<store, hist>>
    /\ StoreUnchanged

ST_SetLastCheckTime == ST_Set("setLastCheckTime", "lastCheckTime")
ST_GetLastCheckTime == ST_Get("getLastCheckTime", "lastCheckTime")
ST_SetRemindLaterTime == ST_Set("setRemindLaterTime", "remindLaterTime")
ST_GetRemindLaterTime == ST_Get("getRemindLaterTime", "remindLaterTime")

ST_ClearRemindLaterTime ==
    /\ store' = [s \in BuiltInStores |->
                    BackendRemove(s, store[s], "remindLaterTime")]
    /\ hist' = [hist EXCEPT !.remindLaterTime = Null]
    /\ fn' = StoreOp("clearRemindLaterTime", << >>, [s \in BuiltInStores |-> Null])
    /\ StoreUnchanged

\* this.storage.clear() / every key with the prefix is removed
ST_ClearAll ==
    /\ store' = [s \in BuiltInStores |-> EmptyBackend(s)]
    /\ hist' = NothingWritten
    /\ fn' = StoreOp("clearAll", << >>, [s \in BuiltInStores |-> Null])
    /\ StoreUnchanged

StoreInit ==
    /\ clock = StartTime
    /\ platform = "ios"
    /\ latestVersion = NewerVersion
    /\ cfg = Config(TRUE, TRUE, FALSE, TRUE, TRUE)
    /\ mandatory = FALSE
    /\ store = [s \in BuiltInStores |-> EmptyBackend(s)]
    /\ pc = [p \in Procs |-> "idle"]
    /\ loc = [p \in Procs |-> IdleLoc]
    /\ res = NoRes
    /\ hist = NothingWritten
    /\ ui = NoUi
    /\ fn = StoreOp("none", << >>, [s \in BuiltInStores |-> Null])
    /\ initialized = FALSE
    /\ hooks = NoHooks
    /\ life = NoLife

StoreNext ==
    \/ ST_SetLastCheckTime
    \/ ST_GetLastCheckTime
    \/ ST_SetRemindLaterTime
    \/ ST_GetRemindLaterTime
    \/ ST_ClearRemindLaterTime
    \/ ST_ClearAll

StoreSpec == StoreInit /\ [][StoreNext]_vars

\* C38: on each built-in store with a healthy backend, getLastCheckTime()
\* returns exactly the value most recently passed to setLastCheckTime(t), for
\* every t >= 0, the 0 written by resetVersionCheckData() included;
\* getRemindLaterTime() returns the value most recently set until
\* clearRemindLaterTime() or clearAll(), and null after; and the three stores
\* give the same answers for the same sequence of operations.
C38_StoreReadAfterWrite ==
    /\ fn.name = "getLastCheckTime" /\ hist.lastCheckTime # Null =>
          \A s \in BuiltInStores : fn.result[s] = hist.lastCheckTime
    /\ fn.name = "getRemindLaterTime" =>
          \A s \in BuiltInStores : fn.result[s] = hist.remindLaterTime
    /\ \A s1, s2 \in BuiltInStores : fn.result[s1] = fn.result[s2]

(***************************************************************************)
(* compareVersions as an order: three versions are compared pairwise.      *)
(***************************************************************************)
\* /^\d+\.\d+\.\d+(\.\d+)?$/.test(version)
isValidVersion(version) == Len(version) \in 3..4 /\ IsNumeric(version)

\* Dotted strings of two to four segments "0" or "1", the last one also "01"
\* or "10"
OrderedVersions ==
    UNION {{Append(v, d) : v \in [1..n -> {<<0>>, <<1>>}],
                           d \in {<<0>>, <<1>>, <<0, 1>>, <<1, 0>>}} : n \in 1..3}

PreorderInit ==
    /\ EngineAtRest
    /\ \E a \in OrderedVersions, b \in OrderedVersions, c \in OrderedVersions :
         fn = CallOf("compareVersions", <<a, b, c>>)

\* compareVersions(a, b), compareVersions(b, c) and compareVersions(a, c) are
\* called and return
ComparePairwise ==
    /\ fn.name = "compareVersions"
    /\ Returns(<<compareVersions(fn.args[1], fn.args[2]),
                 compareVersions(fn.args[2], fn.args[3]),
                 compareVersions(fn.args[1], fn.args[3])>>)

PreorderNext == ComparePairwise

PreorderSpec == PreorderInit /\ [][PreorderNext]_vars

\* a and b have equal segment values after zero padding
EqualSegmentValues(a, b) ==
    \A i \in 1..Max(Len(a), Len(b)) : SegmentValue(a, i) = SegmentValue(b, i)

\* C39: compareVersions is a total preorder on valid version strings: for all
\* valid a, b, c (3 or 4 non-negative integer segments), compareVersions(a,b)
\* <= 0 and compareVersions(b,c) <= 0 imply compareVersions(a,c) <= 0, and
\* compareVersions(a,b) = 0 exactly when a and b have equal segment values
\* after zero padding.
C39_TotalPreorder ==
    /\ fn.returned
    /\ \A i \in 1..3 : isValidVersion(fn.args[i])
    => /\ fn.result[1] <= 0 /\ fn.result[2] <= 0 => fn.result[3] <= 0
       /\ fn.result[1] = 0 <=> EqualSegmentValues(fn.args[1], fn.args[2])
       /\ fn.result[1] <= 0 \/ compareVersions(fn.args[2], fn.args[1]) <= 0

\* "1.0.01" = "1.0.1.0" < "1.0.10": equal values under different spellings and
\* lengths, then a strictly greater version
C39_Witness ==
    /\ fn.returned
    /\ \A i \in 1..3 : isValidVersion(fn.args[i])
    /\ Len(fn.args[1]) # Len(fn.args[2])
    /\ fn.args[1][3] = <<0, 1>>
    /\ fn.result = <<0, 0 - 1, 0 - 1>>

(***************************************************************************)
(* Liveness of a check.  Every provider call that is awaited settles, so   *)
(* the step of a call in flight is taken sooner or later, however often    *)
(* the other call's continuation comes first; the continuation of a        *)
(* settled call and a scheduled render always run.                         *)
(***************************************************************************)
\* A mounted provider over a fresh engine on ios, an update available, the
\* Preference Store having the required operations only
FairBindingInit ==
    /\ clock = StartTime
    /\ platform = "ios"
    /\ latestVersion = NewerVersion
    /\ cfg = Config(TRUE, FALSE, FALSE, FALSE, FALSE)
    /\ mandatory = FALSE
    /\ store = EmptyStore
    /\ pc = [p \in Procs |-> "idle"]
    /\ loc = [p \in Procs |-> IdleLoc]
    /\ res = NoRes
    /\ hist = NoHist
    /\ ui = NoUi
    /\ fn = NoCall
    /\ initialized = FALSE
    /\ hooks = NoHooks
    /\ life = NoLife

FairBindingStep(p) ==
    \/ SSP_VersionInfo(p)
    \/ SSP_RemindLater(p)
    \/ SSP_LastCheck(p)
    \/ SSP_SetLastCheck(p)
    \/ SSP_Catch(p)

FairBindingNext ==
    \/ B_Finish
    \/ B_Render
    \/ \E p \in Procs : B_CheckForUpdates(p)
    \/ \E p \in Procs : ~JustSettled /\ FairBindingStep(p)

FairBindingSpec ==
    /\ FairBindingInit
    /\ [][FairBindingNext]_vars
    /\ \A p \in Procs : SF_vars(~JustSettled /\ FairBindingStep(p))
    /\ WF_vars(B_Finish)
    /\ WF_vars(B_Render)

\* C40: if every Data Source and Preference Store call eventually settles,
\* every shouldShowUpdatePrompt() call eventually settles, and every
\* checkForUpdates() started by the binding eventually sets isChecking back to
\* false (and the next render hands that value to the callers), so a later
\* check is never blocked forever by an earlier one.
C40_CheckSettles ==
    /\ \A p \in Procs : (pc[p] # "idle") ~> (pc[p] = "idle")
    /\ ui.isChecking ~> ~ui.isChecking
    /\ ui.captured ~> (~ui.isChecking /\ ~ui.captured)

\* A check whose evaluation rejected has finished: isChecking is false again
\* and the render that re-creates checkForUpdates is still to come
C40_Witness ==
    /\ AllIdle
    /\ hist.promptAt = Null /\ ui.versionInfo = NoVersionInfo
    /\ ~ui.isChecking /\ ui.captured

====
